---- MODULE Spec2Model ----
(***************************************************************************)
(* PostgreSQLClient (dialect adapter of the Antares database client).      *)
(*                                                                         *)
(* SQL text is modelled as a sequence of tokens (strings).  The tokens     *)
(* ";" and " " are the statement terminator and a blank; every other       *)
(* token is a keyword, an identifier or a literal.  Blanks inside a        *)
(* statement are not modelled (whitespace-normalised text); the blank the  *)
(* code writes after a terminator ("; ") is, because String.split keeps it *)
(* as a fragment of its own.                                               *)
(***************************************************************************)
EXTENDS Integers, Sequences, FiniteSets, TLC

VARIABLES
    schema,     \* this._schema
    op,         \* the operation the caller invoked and how far it got
    call,       \* the raw() invocation in progress (its for-loop)
    cb,         \* the query callback of the statement being shaped
    inflight,   \* queries handed to this._connection and not yet answered
    sent,       \* every query handed to this._connection by the operation
    now,        \* the clock read by new Date()
    connection, \* this._connection: a single Client or a Pool
    pool,       \* the backend sessions behind a Pool, when they are observed
    this_query  \* this._query: the QueryDescriptor of the builder

vars == <<schema, op, call, cb, inflight, sent, now, connection, pool, this_query>>

\* ---------------------------------------------------------------- bounds
MaxItems == 2       \* entries of a SchemaDiff, all lists together
MaxLen == 3         \* tokens of a caller-supplied SQL text
PoolSize == 2       \* physical connections of a Pool

\* ---------------------------------------------------------------- text
SEMI == ";"
WS == " "
NULL == "null"      \* JavaScript null / undefined (falsy; rendered "null")

Falsy(v) == v = NULL \/ v = ""

RECURSIVE splitAt(_, _)
\* String.prototype.split(sep): n separators give n+1 fragments, in order
splitAt(s, sep) ==
    IF \A i \in DOMAIN s : s[i] # sep
    THEN <<s>>
    ELSE LET i == CHOOSE j \in DOMAIN s :
                      s[j] = sep /\ \A l \in 1..(j - 1) : s[l] # sep
         IN  <<SubSeq(s, 1, i - 1)>> \o splitAt(SubSeq(s, i + 1, Len(s)), sep)

RECURSIVE join(_, _)
\* Array.prototype.join(sep) over an array of texts
join(arr, sep) ==
    IF Len(arr) = 0 THEN <<>>
    ELSE IF Len(arr) = 1 THEN arr[1]
    ELSE arr[1] \o sep \o join(Tail(arr), sep)

RECURSIVE flat(_)
\* concatenation of a sequence of sequences
flat(ss) == IF Len(ss) = 0 THEN <<>> ELSE ss[1] \o flat(Tail(ss))

RECURSIVE replaceFirst(_, _, _)
\* String.prototype.replace(a, b) with a string pattern: first occurrence only
replaceFirst(s, a, b) ==
    IF Len(s) = 0 THEN <<>>
    ELSE IF s[1] = a THEN <<b>> \o Tail(s)
    ELSE <<s[1]>> \o replaceFirst(Tail(s), a, b)

\* ---------------------------------------------------------------- type catalog
\* common/data-types/postgresql: the groups' types, flattened (name, length)
dataTypes ==
    << [name |-> "SMALLINT", length |-> FALSE],
       [name |-> "INTEGER", length |-> FALSE],
       [name |-> "BIGINT", length |-> FALSE],
       [name |-> "SMALLSERIAL", length |-> FALSE],
       [name |-> "SERIAL", length |-> FALSE],
       [name |-> "BIGSERIAL", length |-> FALSE],
       [name |-> "VARCHAR", length |-> TRUE] >>

\* String.prototype.toUpperCase / toLowerCase on the type names in use
toUpperCase(s) ==
    CASE s = "serial" -> "SERIAL"
      [] s = "integer" -> "INTEGER"
      [] s = "varchar" -> "VARCHAR"
      [] s = "character varying" -> "CHARACTER VARYING"
      [] OTHER -> s

toLowerCase(s) ==
    CASE s = "SMALLINT" -> "smallint"
      [] s = "INTEGER" -> "integer"
      [] s = "BIGINT" -> "bigint"
      [] s = "SMALLSERIAL" -> "smallserial"
      [] s = "SERIAL" -> "serial"
      [] s = "BIGSERIAL" -> "bigserial"
      [] s = "VARCHAR" -> "varchar"
      [] s = "GEOMETRY" -> "geometry"
      [] OTHER -> s

undefinedType == [name |-> NULL, length |-> FALSE]

\* _getTypeInfo: the first catalog entry with that upper-cased name, or undefined
getTypeInfo(type) ==
    LET hits == SelectSeq(dataTypes, LAMBDA t : t.name = toUpperCase(type))
    IN  IF Len(hits) = 0 THEN undefinedType ELSE hits[1]

\* ---------------------------------------------------------------- alterTable
\* the four arrays alterTable fills: alterColumns, renameColumns,
\* createSequences, manageIndexes
noPush == [alterColumns |-> <<>>, renameColumns |-> <<>>,
           createSequences |-> <<>>, manageIndexes |-> <<>>]

\* the pushes of several steps, one after the other
mergePushes(parts) ==
    [alterColumns |-> flat([i \in DOMAIN parts |-> parts[i].alterColumns]),
     renameColumns |-> flat([i \in DOMAIN parts |-> parts[i].renameColumns]),
     createSequences |-> flat([i \in DOMAIN parts |-> parts[i].createSequences]),
     manageIndexes |-> flat([i \in DOMAIN parts |-> parts[i].manageIndexes])]

\* Array.prototype.forEach with a body that pushes onto the four arrays:
\* the pushes of the items, in the order of the items
forEach(items, body(_)) == mergePushes([i \in DOMAIN items |-> body(items[i])])

\* `${fields.map(field => `${field}`).join(',')}`
fieldList(fields) == join([i \in DOMAIN fields |-> <<fields[i]>>], <<",">>)

\* typeInfo.length ? numLength || charLength || datePrecision : false  (0: falsy)
columnLength(col) ==
    IF getTypeInfo(col.type).length
    THEN IF col.numLength # 0 THEN col.numLength
         ELSE IF col.charLength # 0 THEN col.charLength
         ELSE col.datePrecision
    ELSE 0

opt(cond, text) == IF cond THEN text ELSE <<>>

\* OPTIONS
pushOptions(options) ==
    [noPush EXCEPT !.alterColumns =
        opt("comment" \in options.keys, << <<"COMMENT=", options.comment>> >>)
        \o opt("engine" \in options.keys, << <<"ENGINE=", options.engine>> >>)
        \o opt("autoIncrement" \in options.keys,
               << <<"AUTO_INCREMENT=", options.autoIncrement>> >>)
        \o opt("collation" \in options.keys, << <<"COLLATE=", options.collation>> >>)]

\* ADD FIELDS
pushAddition(addition) ==
    LET length == columnLength(addition)
    IN  [noPush EXCEPT !.alterColumns = <<
            <<"ADD COLUMN", addition.name, toUpperCase(addition.type)>>
            \o opt(length # 0, <<"(", ToString(length), ")">>)
            \o opt(addition.isArray, <<"[]">>)
            \o opt(addition.unsigned, <<"UNSIGNED">>)
            \o opt(addition.zerofill, <<"ZEROFILL">>)
            \o (IF addition.nullable THEN <<"NULL">> ELSE <<"NOT NULL">>)
            \o opt(addition.autoIncrement, <<"AUTO_INCREMENT">>)
            \o opt(~Falsy(addition.default), <<"DEFAULT", addition.default>>)
            \o opt(~Falsy(addition.comment), <<"COMMENT", addition.comment>>)
            \o opt(~Falsy(addition.collation), <<"COLLATE", addition.collation>>)
            \o opt(~Falsy(addition.onUpdate), <<"ON UPDATE", addition.onUpdate>>) >>]

\* ADD INDEX
pushIndexAddition(table, addition) ==
    IF addition.type = "PRIMARY"
    THEN [noPush EXCEPT !.alterColumns =
            << <<"ADD PRIMARY KEY", "(">> \o fieldList(addition.fields) \o <<")">> >>]
    ELSE IF addition.type = "UNIQUE"
    THEN [noPush EXCEPT !.alterColumns =
            << <<"ADD CONSTRAINT", addition.name, "UNIQUE", "(">>
               \o fieldList(addition.fields) \o <<")">> >>]
    ELSE [noPush EXCEPT !.manageIndexes =
            << <<"CREATE INDEX", addition.name, "ON", table, "(">>
               \o fieldList(addition.fields) \o <<")">> >>]

addForeign(f) ==
    <<"ADD CONSTRAINT", f.constraintName, "FOREIGN KEY", "(", f.field, ")",
      "REFERENCES", f.refTable, "(", f.refField, ")",
      "ON UPDATE", f.onUpdate, "ON DELETE", f.onDelete>>

\* ADD FOREIGN KEYS
pushForeignAddition(addition) ==
    [noPush EXCEPT !.alterColumns = <<addForeign(addition)>>]

\* a variant that forgets one of the serial types
serialTypesWithoutBig == {"SERIAL", "SMALLSERIAL"}

serialTypes == {"SERIAL", "SMALLSERIAL", "BIGSERIAL"}

\* switch (change.type): the type a serial column is altered to
localType(type) ==
    CASE type = "SERIAL" -> "integer"
      [] type = "SMALLSERIAL" -> "smallint"
      [] type = "BIGSERIAL" -> "bigint"
      [] OTHER -> toLowerCase(type)

\* `${table}_${change.name}_seq`.replace(' ', '_')
sequenceName(table, change) ==
    replaceFirst(<<table, "_", change.name, "_seq">>, " ", "_")

\* CHANGE FIELDS
pushChange(this_schema, table, change) ==
    LET length == columnLength(change)
        lt == localType(change.type)
        serial == change.type \in serialTypes
    IN  [alterColumns |-> <<
            <<"ALTER COLUMN", change.orgName, "TYPE", lt>>
              \o opt(length # 0, <<"(", ToString(length), ")">>)
              \o opt(change.isArray, <<"[]">>)
              \o <<"USING", change.orgName, "::", lt>>,
            <<"ALTER COLUMN", change.orgName,
              IF change.nullable THEN "DROP NOT NULL" ELSE "SET NOT NULL">>,
            <<"ALTER COLUMN", change.orgName>>
              \o (IF ~Falsy(change.default)
                  THEN <<"SET DEFAULT", change.default>>
                  ELSE <<"DROP DEFAULT">>) >>
            \o opt(serial, <<
                <<"ALTER COLUMN", change.orgName, "SET DEFAULT", "nextval(">>
                  \o sequenceName(table, change) \o <<")">> >>),
         renameColumns |-> opt(change.orgName # change.name, <<
            <<"ALTER TABLE", this_schema, ".", table,
              "RENAME COLUMN", change.orgName, "TO", change.name>> >>),
         createSequences |-> opt(serial, <<
            <<"CREATE SEQUENCE IF NOT EXISTS">> \o sequenceName(table, change)
              \o <<"OWNED BY", table, ".", change.orgName>> >>),
         manageIndexes |-> <<>>]

\* CHANGE INDEX
pushIndexChange(table, change) ==
    LET drop ==
            IF change.oldType = "PRIMARY"
            THEN [noPush EXCEPT !.alterColumns = << <<"DROP PRIMARY KEY">> >>]
            ELSE IF change.oldType = "UNIQUE"
            THEN [noPush EXCEPT !.alterColumns =
                    << <<"DROP CONSTRAINT", change.oldName>> >>]
            ELSE [noPush EXCEPT !.manageIndexes =
                    << <<"DROP INDEX", change.oldName>> >>]
        add == pushIndexAddition(table, change)
    IN  [alterColumns |-> drop.alterColumns \o add.alterColumns,
         renameColumns |-> <<>>,
         createSequences |-> <<>>,
         manageIndexes |-> drop.manageIndexes \o add.manageIndexes]

\* CHANGE FOREIGN KEYS
pushForeignChange(change) ==
    [noPush EXCEPT !.alterColumns =
        << <<"DROP CONSTRAINT", change.oldName>>, addForeign(change) >>]

\* DROP FIELDS
pushDeletion(deletion) ==
    [noPush EXCEPT !.alterColumns = << <<"DROP COLUMN", deletion.name>> >>]

\* DROP INDEX
pushIndexDeletion(deletion) ==
    IF deletion.type \in {"PRIMARY", "UNIQUE"}
    THEN [noPush EXCEPT !.alterColumns = << <<"DROP CONSTRAINT", deletion.name>> >>]
    ELSE [noPush EXCEPT !.manageIndexes = << <<"DROP INDEX", deletion.name>> >>]

\* DROP FOREIGN KEYS
pushForeignDeletion(deletion) ==
    [noPush EXCEPT !.alterColumns =
        << <<"DROP CONSTRAINT", deletion.constraintName>> >>]

\* a variant in which only the changed columns' types are looked at
alterTableThrowsOnChangesOnly(params) ==
    \E i \in DOMAIN params.changes :
        getTypeInfo(params.changes[i].type) = undefinedType

\* typeInfo.length on an undefined typeInfo: alterTable throws a TypeError
\* while it renders, before it reaches this.raw
alterTableThrows(params) ==
    \/ \E i \in DOMAIN params.additions :
          getTypeInfo(params.additions[i].type) = undefinedType
    \/ \E i \in DOMAIN params.changes :
          getTypeInfo(params.changes[i].type) = undefinedType

\* the arrays after all the forEach loops, in the order the code runs them
alterTableArrays(this_schema, params) ==
    LET t == params.table
        parts == <<
            pushOptions(params.options),
            forEach(params.additions, pushAddition),
            forEach(params.indexChanges.additions,
                    LAMBDA a : pushIndexAddition(t, a)),
            forEach(params.foreignChanges.additions, pushForeignAddition),
            forEach(params.changes, LAMBDA c : pushChange(this_schema, t, c)),
            forEach(params.indexChanges.changes, LAMBDA c : pushIndexChange(t, c)),
            forEach(params.foreignChanges.changes, pushForeignChange),
            forEach(params.deletions, pushDeletion),
            forEach(params.indexChanges.deletions, pushIndexDeletion),
            forEach(params.foreignChanges.deletions, pushForeignDeletion) >>
    IN  mergePushes(parts)

\* a variant that renames the table before anything else
alterTableSqlRenameFirst(this_schema, params) ==
    LET a == alterTableArrays(this_schema, params)
        t == params.table
    IN  opt(~Falsy(params.options.name),
            <<"ALTER TABLE", this_schema, ".", t,
              "RENAME TO", params.options.name, SEMI, WS>>)
        \o opt(Len(a.manageIndexes) # 0,
               join(a.manageIndexes, <<SEMI>>) \o <<SEMI, WS>>)
        \o opt(Len(a.createSequences) # 0,
               join(a.createSequences, <<SEMI>>) \o <<SEMI, WS>>)
        \o opt(Len(a.alterColumns) # 0,
               <<"ALTER TABLE", this_schema, ".", t>>
               \o join(a.alterColumns, <<", ">>) \o <<SEMI, WS>>)
        \o opt(Len(a.renameColumns) # 0,
               join(a.renameColumns, <<SEMI>>) \o <<SEMI, WS>>)

\* the sql text alterTable hands to this.raw
alterTableSql(this_schema, params) ==
    LET a == alterTableArrays(this_schema, params)
        t == params.table
        sql1 == opt(Len(a.alterColumns) # 0,
                    <<"ALTER TABLE", this_schema, ".", t>>
                    \o join(a.alterColumns, <<", ">>) \o <<SEMI, WS>>)
        sql2 == sql1 \o opt(Len(a.renameColumns) # 0,
                            join(a.renameColumns, <<SEMI>>) \o <<SEMI, WS>>)
        sql3 == opt(Len(a.createSequences) # 0,
                    join(a.createSequences, <<SEMI>>) \o <<SEMI, WS>>) \o sql2
        sql4 == opt(Len(a.manageIndexes) # 0,
                    join(a.manageIndexes, <<SEMI>>) \o <<SEMI, WS>>) \o sql3
    IN  sql4 \o opt(~Falsy(params.options.name),
                    <<"ALTER TABLE", this_schema, ".", t,
                      "RENAME TO", params.options.name, SEMI, WS>>)

\* ---------------------------------------------------------------- backend
\* The database the client talks to: two tables, public.t1(a) with primary
\* key a, and s1.t2(b) with a plain index on b and a foreign key b -> t1.a.
pgClass == (1 :> [table |-> "t1", schema |-> "public"])
        @@ (2 :> [table |-> "t2", schema |-> "s1"])

Q_JOIN == "SELECT a, b FROM s1.t2 AS x, t1"
Q_ONE == "SELECT 1"
\* a statement the backend runs and the parser rejects
Q_LOCK == "SELECT a, -a AS a, 'x' FROM t1 FOR UPDATE SKIP LOCKED"

\* the statement of a fragment: its tokens that are not blanks
body(query) == SelectSeq(query, LAMBDA tok : tok # WS)

\* res.fields of the driver for a statement (name, tableID, dataTypeID);
\* a statement that returns no rows has no fields
pgFields(query) ==
    LET b == body(query)
    IN  IF b = <<Q_JOIN>>
        THEN << [name |-> "a", tableID |-> 1, dataTypeID |-> "23"],
                [name |-> "b", tableID |-> 2, dataTypeID |-> "1043"] >>
        ELSE IF b = <<Q_ONE>>
        THEN << [name |-> "?column?", tableID |-> 0, dataTypeID |-> "23"] >>
        ELSE IF b = <<Q_LOCK>>
        THEN << [name |-> "a", tableID |-> 1, dataTypeID |-> "23"],
                [name |-> "a", tableID |-> 1, dataTypeID |-> "23"],
                [name |-> "?column?", tableID |-> 0, dataTypeID |-> "25"] >>
        ELSE <<>>

\* one row of values per row-returning statement, in rowMode 'array'
pgRowValues(query) ==
    LET f == pgFields(query)
    IN  IF Len(f) = 0 THEN <<>>
        ELSE << [i \in DOMAIN f |-> "v" \o ToString(i) \o "_" \o f[i].name] >>

\* res.rows: value arrays in rowMode 'array', else objects keyed by column name
pgRows(query, rowMode) ==
    LET f == pgFields(query)
        vals == pgRowValues(query)
    IN  IF rowMode = "array" THEN vals
        ELSE [r \in DOMAIN vals |->
                [key \in {f[i].name : i \in DOMAIN f} |->
                    vals[r][CHOOSE i \in DOMAIN f :
                               /\ f[i].name = key
                               /\ \A j \in DOMAIN f : f[j].name = key => j <= i]]]

\* the clock ticks the backend takes to answer a statement; the catalog
\* lookups are answered within the tick
latency(query) == IF body(query) = <<Q_JOIN>> THEN 1 ELSE 0

\* pgsql-ast-parser parse(query)[0]: the first FROM entry of a statement it
\* can parse; it throws on a statement outside its grammar
noAst == [parsed |-> FALSE, from |-> FALSE, hasSchema |-> FALSE,
          schema |-> NULL, name |-> NULL, as |-> NULL]

parse(query) ==
    LET b == body(query)
    IN  IF b = <<Q_JOIN>>
        THEN [parsed |-> TRUE, from |-> TRUE, hasSchema |-> TRUE,
              schema |-> "s1", name |-> "t2", as |-> "x"]
        ELSE IF b = <<Q_ONE>>
        THEN [noAst EXCEPT !.parsed = TRUE]
        ELSE noAst

\* types.builtins, inverted in the constructor: dataTypeID -> type name
types(dataTypeID) ==
    CASE dataTypeID = "23" -> "INT4"
      [] dataTypeID = "25" -> "TEXT"
      [] dataTypeID = "1043" -> "VARCHAR"
      [] OTHER -> NULL

\* information_schema.columns rows of schema.table
columnRows(s, t) ==
    IF s = "public" /\ t = "t1"
    THEN << [column_name |-> "a", data_type |-> "integer", table_schema |-> s,
             table_name |-> t, numeric_precision |-> 32,
             datetime_precision |-> 0, character_maximum_length |-> 0] >>
    ELSE IF s = "s1" /\ t = "t2"
    THEN << [column_name |-> "b", data_type |-> "character varying",
             table_schema |-> s, table_name |-> t, numeric_precision |-> 0,
             datetime_precision |-> 0, character_maximum_length |-> 10] >>
    ELSE <<>>

\* the index catalog rows of the table with that relname
indexRows(t) ==
    IF t = "t1"
    THEN << [constraint_name |-> "t1_pkey", constraint_type |-> "PRIMARY",
             column_name |-> "a"] >>
    ELSE IF t = "t2"
    THEN << [constraint_name |-> "t2_b", constraint_type |-> "INDEX",
             column_name |-> "b"] >>
    ELSE <<>>

\* the foreign-key usage rows of schema.table
keyUsageRows(s, t) ==
    IF s = "s1" /\ t = "t2"
    THEN << [table_schema |-> s, table_name |-> t, column_name |-> "b",
             constraint_name |-> "t2_b_fkey", foreign_table_schema |-> "public",
             foreign_table_name |-> "t1", foreign_column_name |-> "a"] >>
    ELSE <<>>

\* ---------------------------------------------------------------- introspection
\* getTableColumns(params, false): the descriptor of one catalog row
columnDescriptor(field) ==
    [name |-> field.column_name,
     key |-> NULL,
     type |-> toUpperCase(field.data_type),
     isArray |-> field.data_type = "ARRAY",
     schema |-> field.table_schema,
     table |-> field.table_name,
     numPrecision |-> field.numeric_precision,
     datePrecision |-> field.datetime_precision,
     charLength |-> field.character_maximum_length]

\* getTableIndexes: the descriptor of one catalog row
indexDescriptor(row) ==
    [name |-> row.constraint_name, column |-> row.column_name,
     type |-> row.constraint_type]

\* getKeyUsage: the descriptor of one catalog row
keyUsageDescriptor(field) ==
    [schema |-> field.table_schema, table |-> field.table_name,
     field |-> field.column_name, constraintName |-> field.constraint_name,
     refSchema |-> field.foreign_table_schema,
     refTable |-> field.foreign_table_name,
     refField |-> field.foreign_column_name]

\* getTableByIDs: rows.reduce into { tableid: { table, schema } }
tableByIDs(ids) == [id \in ids \cap DOMAIN pgClass |-> pgClass[id]]

\* Array.prototype.find: the first element that satisfies the test, if any
found(arr, test(_)) == \E i \in DOMAIN arr : test(arr[i])
find(arr, test(_)) ==
    arr[CHOOSE i \in DOMAIN arr : test(arr[i]) /\ \A j \in 1..(i - 1) : ~test(arr[j])]

\* ---------------------------------------------------------------- raw
defaultArgs == [nest |-> FALSE, details |-> FALSE, split |-> TRUE]

noCall == [args |-> defaultArgs, queries |-> <<>>, k |-> 0, resultsArr |-> <<>>,
           timeStart |-> 0, promise |-> "none"]

noCb == [phase |-> "none", query |-> <<>>, ast |-> noAst, timeStop |-> 0,
         fields |-> <<>>, rows |-> <<>>, queryResult |-> <<>>,
         tablesInfo |-> <<>>, remappedFields |-> <<>>, paramsArr |-> <<>>,
         p |-> 0, columns |-> <<>>, keysArr |-> <<>>]

noOptions == [keys |-> {}, comment |-> "", engine |-> "", autoIncrement |-> "",
              collation |-> "", name |-> ""]

noDiff == [table |-> "", additions |-> <<>>, deletions |-> <<>>, changes |-> <<>>,
           indexChanges |-> [additions |-> <<>>, changes |-> <<>>, deletions |-> <<>>],
           foreignChanges |-> [additions |-> <<>>, changes |-> <<>>, deletions |-> <<>>],
           options |-> noOptions]

noOp == [kind |-> "none", status |-> "idle", step |-> 0, error |-> <<>>,
         ret |-> [isArray |-> FALSE, items |-> <<>>], rawCalls |-> 0,
         target |-> [name |-> "", oldName |-> ""], sql |-> <<>>,
         args |-> defaultArgs, params |-> noDiff]

sagas == {"alterRoutine", "alterFunction", "alterTrigger"}

\* this._connection.query(...): the query is handed to the connection
Send(m, role, text) ==
    [m EXCEPT !.inflight = Append(@, [role |-> role, text |-> text,
                                      id |-> Len(m.sent) + 1]),
              !.sent = Append(@, [role |-> role, text |-> text, late |-> m.late,
                                  call |-> m.op.rawCalls, at |-> m.now,
                                  outcome |-> "pending", doneAt |-> 0])]

\* use(schema): sets this._schema and starts raw(`SET search_path TO ...`),
\* whose promise the callers inside the client do not await
use(m, s) ==
    Send([m EXCEPT !.schema = s], "setSchema", <<"SET search_path TO", s>>)

\* a variant that always returns the array
returnValueAlwaysArray(resultsArr) == [isArray |-> TRUE, items |-> resultsArr]

\* resultsArr.length === 1 ? resultsArr[0] : resultsArr
returnValue(resultsArr) ==
    [isArray |-> Len(resultsArr) # 1, items |-> resultsArr]

\* the temporary object of an object-level alter
tempName(name) == "Antares_" \o name \o "_tmp"

routineBody == <<"BEGIN", "x", SEMI, "END">>

createRoutineSql(this_schema, name) ==
    <<"CREATE PROCEDURE", this_schema, ".", name, "(", ")",
      "LANGUAGE", "SQL", "SECURITY", "DEFINER", "AS">> \o routineBody

dropRoutineSql(this_schema, name) == <<"DROP PROCEDURE", this_schema, ".", name>>

createFunctionSql(name) ==
    <<"CREATE", "FUNCTION", name, "(", ")", "RETURNS", "INT",
      "LANGUAGE", "SQL", "NOT DETERMINISTIC", "SQL SECURITY", "DEFINER",
      "COMMENT", "">> \o routineBody

dropFunctionSql(name) == <<"DROP FUNCTION", name>>

createTriggerSql(name) ==
    <<"CREATE", "TRIGGER", name, "BEFORE", "INSERT", "ON", "t1",
      "FOR EACH ROW">> \o routineBody

dropTriggerSql(name) == <<"DROP TRIGGER", name>>

\* the statement of step 1..4 of alterRoutine / alterFunction / alterTrigger:
\* create(temp), drop(temp.name), drop(oldName), create(new)
sagaSql(kind, step, this_schema, target) ==
    LET name == CASE step = 1 -> tempName(target.name)
                  [] step = 2 -> tempName(target.name)
                  [] step = 3 -> target.oldName
                  [] OTHER -> target.name
        create == step \in {1, 4}
    IN  CASE kind = "alterRoutine" ->
                IF create THEN createRoutineSql(this_schema, name)
                ELSE dropRoutineSql(this_schema, name)
          [] kind = "alterFunction" ->
                IF create THEN createFunctionSql(name) ELSE dropFunctionSql(name)
          [] OTHER ->
                IF create THEN createTriggerSql(name) ELSE dropTriggerSql(name)

\* ---------------------------------------------------------------- getStructure
\* what the catalog of the backend holds: the schemata in the order the
\* backend lists them, their tables, routines and triggers
pgDatabases == <<"information_schema", "public", "s1">>

pgTables(db) ==
    IF db = "public"
    THEN << [table_name |-> "t1", table_type |-> "BASE TABLE", reltuples |-> 3,
             data_length |-> 8, index_length |-> 8, comment |-> ""] >>
    ELSE IF db = "s1"
    THEN << [table_name |-> "t2", table_type |-> "BASE TABLE", reltuples |-> 0,
             data_length |-> 0, index_length |-> 8, comment |-> ""],
            [table_name |-> "v", table_type |-> "VIEW", reltuples |-> 0,
             data_length |-> 0, index_length |-> 0, comment |-> ""] >>
    ELSE <<>>

pgFunctions ==
    << [routine_name |-> "f", routine_schema |-> "public",
        routine_type |-> "FUNCTION", data_type |-> "integer",
        security_type |-> "INVOKER"],
       [routine_name |-> "tf", routine_schema |-> "s1",
        routine_type |-> "FUNCTION", data_type |-> "trigger",
        security_type |-> "INVOKER"] >>

pgProcedures ==
    << [routine_name |-> "p", routine_schema |-> "s1",
        routine_type |-> "PROCEDURE", security_type |-> "DEFINER"] >>

pgTriggers(db) ==
    IF db = "s1"
    THEN << [trigger_name |-> "trg", activation |-> "BEFORE",
             definition |-> "EXECUTE FUNCTION tf()", event |-> "INSERT"] >>
    ELSE <<>>

\* the databases of the backend that are in the requested set, in order
requested(schemas) == SelectSeq(pgDatabases, LAMBDA db : db \in schemas)

\* the queries of getStructure: schemata, functions, procedures, then the
\* tables and the triggers of every requested database
structureSteps(schemas) == 3 + 2 * Len(requested(schemas))

structureSql(schemas, step) ==
    CASE step = 1 -> <<"SELECT schema_name AS database FROM information_schema.schemata">>
      [] step = 2 -> <<"SELECT * FROM information_schema.routines WHERE routine_type = 'FUNCTION'">>
      [] step = 3 -> <<"SELECT * FROM information_schema.routines WHERE routine_type = 'PROCEDURE'">>
      [] OTHER ->
          LET db == requested(schemas)[(step - 2) \div 2]
          IN  IF step % 2 = 0
              THEN <<"SELECT * FROM information_schema.tables WHERE table_schema =", db>>
              ELSE <<"SELECT ... FROM information_schema.triggers WHERE trigger_schema =", db>>

routineDescriptor(r) ==
    [name |-> r.routine_name, type |-> r.routine_type, security |-> r.security_type]

\* the descriptor of a database outside the requested set
emptyDatabase(db) ==
    [name |-> db, tables |-> <<>>, functions |-> <<>>, procedures |-> <<>>,
     triggers |-> <<>>, schedulers |-> <<>>]

\* the descriptor of a database inside the requested set
hydratedDatabase(db) ==
    LET tables == pgTables(db)
        triggers == pgTriggers(db)
        funcs == SelectSeq(pgFunctions, LAMBDA f :
                     f.routine_schema = db /\ f.data_type # "trigger")
        trigFuncs == SelectSeq(pgFunctions, LAMBDA f :
                     f.routine_schema = db /\ f.data_type = "trigger")
        procs == SelectSeq(pgProcedures, LAMBDA r : r.routine_schema = db)
    IN  [name |-> db,
         tables |-> [i \in DOMAIN tables |->
                       [name |-> tables[i].table_name,
                        type |-> IF tables[i].table_type = "VIEW"
                                 THEN "view" ELSE "table",
                        rows |-> tables[i].reltuples,
                        size |-> tables[i].data_length + tables[i].index_length,
                        comment |-> tables[i].comment,
                        engine |-> ""]],
         functions |-> [i \in DOMAIN funcs |-> routineDescriptor(funcs[i])],
         procedures |-> [i \in DOMAIN procs |-> routineDescriptor(procs[i])],
         triggers |-> [i \in DOMAIN triggers |->
                         [name |-> triggers[i].trigger_name,
                          timing |-> triggers[i].activation,
                          definer |-> triggers[i].definition,
                          event |-> triggers[i].event]],
         triggerFunctions |-> [i \in DOMAIN trigFuncs |->
                                 routineDescriptor(trigFuncs[i])],
         schedulers |-> <<>>]

\* databases.map(db => ...): what getStructure returns
structureOf(schemas) ==
    [i \in DOMAIN pgDatabases |->
        IF pgDatabases[i] \in schemas
        THEN hydratedDatabase(pgDatabases[i])
        ELSE emptyDatabase(pgDatabases[i])]

\* ---------------------------------------------------------------- getTableColumns
\* type names are sequences of characters, so that replace() and
\* toUpperCase() act on them as they do on a string
lowerCase == <<"a", "b", "c", "d", "e", "f", "g", "h", "i", "j", "k", "l", "m", "n", "o", "p", "q", "r", "s", "t", "u", "v", "w", "x", "y", "z">>
upperCase == <<"A", "B", "C", "D", "E", "F", "G", "H", "I", "J", "K", "L", "M", "N", "O", "P", "Q", "R", "S", "T", "U", "V", "W", "X", "Y", "Z">>

\* String.prototype.toUpperCase
toUpperCaseChars(str) ==
    [i \in DOMAIN str |->
        IF \E k \in DOMAIN lowerCase : lowerCase[k] = str[i]
        THEN upperCase[CHOOSE k \in DOMAIN lowerCase : lowerCase[k] = str[i]]
        ELSE str[i]]

\* str.replace(c, ''): the first occurrence of c is removed
removeFirst(str, c) ==
    IF \E i \in DOMAIN str : str[i] = c
    THEN LET i == CHOOSE k \in DOMAIN str :
                      str[k] = c /\ \A l \in 1..(k - 1) : str[l] # c
         IN  SubSeq(str, 1, i - 1) \o SubSeq(str, i + 1, Len(str))
    ELSE str

\* this._arrayTypes: udt_name of an array -> type of its elements
arrayTypeNames ==
    << <<<<"_", "i", "n", "t", "2">>,
          <<"S", "M", "A", "L", "L", "I", "N", "T">>>>,
       <<<<"_", "i", "n", "t", "4">>,
          <<"I", "N", "T", "E", "G", "E", "R">>>>,
       <<<<"_", "i", "n", "t", "8">>,
          <<"B", "I", "G", "I", "N", "T">>>>,
       <<<<"_", "f", "l", "o", "a", "t", "4">>,
          <<"R", "E", "A", "L">>>>,
       <<<<"_", "f", "l", "o", "a", "t", "8">>,
          <<"D", "O", "U", "B", "L", "E", " ", "P", "R", "E", "C", "I", "S", "I", "O", "N">>>>,
       <<<<"_", "c", "h", "a", "r">>,
          <<"\"", "C", "H", "A", "R", "\"">>>>,
       <<<<"_", "v", "a", "r", "c", "h", "a", "r">>,
          <<"C", "H", "A", "R", "A", "C", "T", "E", "R", " ", "V", "A", "R", "Y", "I", "N", "G">>>> >>

arrayTypeKeys == {arrayTypeNames[i][1] : i \in DOMAIN arrayTypeNames}

arrayTypes(key) ==
    arrayTypeNames[CHOOSE i \in DOMAIN arrayTypeNames : arrayTypeNames[i][1] = key][2]

\* a variant that never looks into the table of array types
getArrayTypeStripOnly(type) == removeFirst(type, "_")

\* _getArrayType
getArrayType(type) ==
    IF type \in arrayTypeKeys THEN arrayTypes(type)
    ELSE removeFirst(type, "_")

ARRAY == <<"A", "R", "R", "A", "Y">>

\* rows.map(field => ...) of getTableColumns
tableColumns(rows, arrayRemap) ==
    [i \in DOMAIN rows |->
        LET field == rows[i]
            isArray == field.data_type = ARRAY
            type == IF isArray /\ arrayRemap
                    THEN getArrayType(field.udt_name)
                    ELSE field.data_type
        IN  [name |-> field.column_name,
             key |-> NULL,
             type |-> toUpperCaseChars(type),
             isArray |-> isArray,
             schema |-> field.table_schema,
             table |-> field.table_name,
             numPrecision |-> field.numeric_precision,
             datePrecision |-> field.datetime_precision,
             charLength |-> field.character_maximum_length,
             nullable |-> field.is_nullable = "YES",
             unsigned |-> NULL,
             zerofill |-> NULL,
             order |-> field.ordinal_position,
             default |-> field.column_default,
             charset |-> field.character_set_name,
             collation |-> field.collation_name,
             autoIncrement |-> FALSE,
             onUpdate |-> NULL,
             comment |-> ""]]

\* ---------------------------------------------------------------- get...Informations
\* a definition text is a sequence of tokens; str.match(pattern) is NULL
\* when the pattern does not occur in it
dollarTags == {"$function$", "$procedure$"}

\* /(\$(.*)\$)(.*)(\$(.*)\$)/gs: from the first dollar tag to the last
matchBody(def) ==
    LET tags == {i \in DOMAIN def : def[i] \in dollarTags}
    IN  IF Cardinality(tags) < 2 THEN NULL
        ELSE SubSeq(def, CHOOSE i \in tags : \A j \in tags : i <= j,
                         CHOOSE i \in tags : \A j \in tags : j <= i)

\* a lookbehind pattern /(?<=KEYWORD )(.*).../: what follows the keyword
matchAfter(def, keyword) ==
    LET at == {i \in DOMAIN def : def[i] = keyword /\ i < Len(def)}
    IN  IF at = {} THEN NULL
        ELSE <<def[(CHOOSE i \in at : \A j \in at : i <= j) + 1]>>

\* /(A|B|...)/gs: the first of the words that occurs
matchWord(def, words) ==
    LET at == {i \in DOMAIN def : def[i] \in words}
    IN  IF at = {} THEN NULL
        ELSE <<def[CHOOSE i \in at : \A j \in at : i <= j]>>

\* /(BEGIN|begin)(.*)(END|end)/gs
matchBeginEnd(def) ==
    LET begins == {i \in DOMAIN def : def[i] \in {"BEGIN", "begin"}}
        ends == {i \in DOMAIN def : def[i] \in {"END", "end"}}
        first == CHOOSE i \in begins : \A j \in begins : i <= j
        last == CHOOSE i \in ends : \A j \in ends : j <= i
    IN  IF begins = {} \/ ends = {} THEN NULL
        ELSE IF last < first THEN NULL
        ELSE SubSeq(def, first, last)

\* getViewInformations: results.rows.map(...)[0]
viewInformations(rows, view) ==
    [i \in DOMAIN rows |->
        [algorithm |-> "", definer |-> "", security |-> "", updateOption |-> "",
         sql |-> rows[i].definition, name |-> view]]

\* the matches getTriggerInformations indexes with [0]
triggerMatches(stmt) ==
    << matchAfter(stmt, "DEFINER="), matchBeginEnd(stmt), matchAfter(stmt, "ON"),
       matchWord(stmt, {"BEFORE", "AFTER"}),
       matchWord(stmt, {"INSERT", "UPDATE", "DELETE"}) >>

\* getTriggerInformations: results.rows.map(...)
triggerInformations(rows) ==
    [i \in DOMAIN rows |->
        LET stmt == rows[i].statement
        IN  [definer |-> matchAfter(stmt, "DEFINER=")[1],
             sql |-> matchBeginEnd(stmt),
             name |-> rows[i].Trigger,
             table |-> matchAfter(stmt, "ON")[1],
             event1 |-> matchWord(stmt, {"BEFORE", "AFTER"})[1],
             event2 |-> matchWord(stmt, {"INSERT", "UPDATE", "DELETE"})[1]]]

\* null[0]: a pattern that did not match makes the map callback throw
triggerThrows(rows) ==
    \E i \in DOMAIN rows : \E k \in 1..5 : triggerMatches(rows[i].statement)[k] = NULL

\* the descriptor of a routine or function the catalog does not know
unknownRoutine(name) ==
    [definer |-> NULL, sql |-> "", parameters |-> <<>>, name |-> name,
     comment |-> "", security |-> "DEFINER", deterministic |-> FALSE,
     dataAccess |-> "CONTAINS SQL"]

\* results.rows.map(row => ...) over the rows of the parameters query
routineParameters(rows) ==
    [i \in DOMAIN rows |->
        [name |-> rows[i].parameter_name, type |-> toUpperCase(rows[i].data_type),
         length |-> "", context |-> rows[i].parameter_mode]]

\* null.toUpperCase(): a row without data_type makes the callback throw
parametersThrow(rows) == \E i \in DOMAIN rows : rows[i].data_type = NULL

\* the descriptor getRoutineInformations builds from a definition
routineInformations(def, rows, name) ==
    [definer |-> "", sql |-> matchBody(def), parameters |-> routineParameters(rows),
     name |-> name, comment |-> "",
     security |-> IF \E i \in DOMAIN def : def[i] = "SECURITY DEFINER"
                  THEN "DEFINER" ELSE "INVOKER",
     deterministic |-> NULL, dataAccess |-> NULL,
     language |-> matchAfter(def, "LANGUAGE")[1]]

routineThrows(def, rows) ==
    \/ parametersThrow(rows)
    \/ matchBody(def) = NULL
    \/ matchAfter(def, "LANGUAGE") = NULL

\* the descriptor getFunctionInformations builds from a definition
functionInformations(def, rows, name) ==
    [definer |-> "", sql |-> matchBody(def), parameters |-> routineParameters(rows),
     name |-> name, comment |-> "",
     security |-> IF \E i \in DOMAIN def : def[i] = "SECURITY DEFINER"
                  THEN "DEFINER" ELSE "INVOKER",
     deterministic |-> NULL, dataAccess |-> NULL,
     language |-> matchAfter(def, "LANGUAGE")[1],
     returns |-> toUpperCase(matchAfter(def, "RETURNS SETOF")[1])]

functionThrows(def, rows) ==
    \/ routineThrows(def, rows)
    \/ matchAfter(def, "RETURNS SETOF") = NULL

informations == {"getViewInformations", "getTriggerInformations",
                 "getRoutineInformations", "getFunctionInformations"}

\* the text of the first query of an information call
informationSql(kind, name) ==
    CASE kind = "getViewInformations" ->
            <<"SELECT definition FROM pg_views WHERE viewname =", name>>
      [] kind = "getTriggerInformations" -> <<"SHOW CREATE TRIGGER", name>>
      [] OTHER ->
            <<"SELECT pg_get_functiondef((SELECT oid FROM pg_proc WHERE proname =",
              name, "))", SEMI>>

\* the query for the parameters of a routine or function
parametersSql(kind, name) ==
    <<"SELECT ... FROM information_schema.routines proc LEFT JOIN information_schema.parameters args WHERE proc.routine_type =",
      IF kind = "getFunctionInformations" THEN "FUNCTION" ELSE "PROCEDURE",
      "AND proc.routine_name =", name>>

RECURSIVE StartRaw(_, _, _), NextStmt(_), RawSettle(_, _, _), SagaStep(_)
RECURSIVE InformationSettle(_)
RECURSIVE StructureStep(_)

\* raw(sql, args) up to its first await: the optional use(), the split, and
\* the for-loop up to the first query it sends
StartRaw(m, sql, args) ==
    LET m1 == IF args.nest /\ m.schema # "public" THEN use(m, m.schema) ELSE m
        queries == IF args.split THEN splitAt(sql, SEMI) ELSE <<sql>>
    IN  NextStmt([m1 EXCEPT
            !.call = [noCall EXCEPT !.args = args, !.queries = queries],
            !.op.rawCalls = @ + 1])

\* the for-loop from the fragment after call.k: empty fragments are skipped,
\* the next one is sent; after the last one raw returns
NextStmt(m) ==
    LET rest == {i \in DOMAIN m.call.queries :
                    i > m.call.k /\ m.call.queries[i] # <<>>}
    IN  IF rest = {}
        THEN RawSettle(m, "resolved", <<>>)
        ELSE LET i == CHOOSE j \in rest : \A l \in rest : j <= l
             IN  Send([m EXCEPT !.call.k = i, !.call.timeStart = m.now,
                                !.call.promise = "pending"],
                      "stmt", m.call.queries[i])

\* a variant in which an object-level alter goes on after a failed step
RawSettleKeepGoing(m, status, err) ==
    IF m.op.kind \in sagas /\ m.op.step < 4
    THEN SagaStep([m EXCEPT !.op.step = @ + 1])
    ELSE [m EXCEPT !.op.status = status, !.op.error = err]

\* raw returned or threw: the operation that awaited it goes on
RawSettle(m, status, err) ==
    IF m.op.kind \in sagas /\ status = "resolved" /\ m.op.step < 4
    THEN SagaStep([m EXCEPT !.op.step = @ + 1])
    ELSE IF m.op.kind \in informations /\ status = "resolved"
    THEN InformationSettle(m)
    ELSE IF m.op.kind = "getTableColumns" /\ status = "resolved"
    THEN [m EXCEPT !.op.status = "resolved",
                   !.op.ret = [isArray |-> TRUE,
                               items |-> tableColumns(m.op.params.rows,
                                                      m.op.params.arrayRemap)]]
    ELSE IF m.op.kind = "getStructure" /\ status = "resolved"
    THEN IF m.op.step < structureSteps(m.op.params.schemas)
         THEN StructureStep([m EXCEPT !.op.step = @ + 1])
         ELSE [m EXCEPT !.op.status = "resolved",
                        !.op.ret = [isArray |-> TRUE,
                                    items |-> structureOf(m.op.params.schemas)]]
    ELSE [m EXCEPT !.op.status = status, !.op.error = err,
                   !.op.ret = IF status = "resolved" /\ m.op.kind \notin sagas
                              THEN returnValue(m.call.resultsArr)
                              ELSE @]

\* what an information call does with the result of the raw it awaited
InformationSettle(m) ==
    LET kind == m.op.kind
        name == m.op.params.name
        rows == m.op.params.rows
        def == m.op.params.definition
        parameters == m.op.params.parameters
        done(descriptors) ==
            [m EXCEPT !.op.status = "resolved",
                      !.op.ret = [isArray |-> FALSE,
                                  items |-> IF descriptors = <<>> THEN <<>>
                                            ELSE <<descriptors[1]>>]]
        thrown == [m EXCEPT !.op.status = "rejected", !.op.error = <<"TypeError">>]
    IN  CASE kind = "getViewInformations" -> done(viewInformations(rows, name))
          [] kind = "getTriggerInformations" ->
                IF triggerThrows(rows) THEN thrown
                ELSE done(triggerInformations(rows))
          [] OTHER ->
                IF m.op.step = 1
                THEN IF def = NULL
                     THEN done(<<unknownRoutine(name)>>)
                     ELSE StartRaw([m EXCEPT !.op.step = 2],
                                   parametersSql(kind, name), defaultArgs)
                ELSE IF kind = "getRoutineInformations"
                THEN IF routineThrows(def, parameters) THEN thrown
                     ELSE done(<<routineInformations(def, parameters, name)>>)
                ELSE IF functionThrows(def, parameters) THEN thrown
                     ELSE done(<<functionInformations(def, parameters, name)>>)

\* the awaited raw of the current step of getStructure
StructureStep(m) ==
    StartRaw(m, structureSql(m.op.params.schemas, m.op.step), defaultArgs)

\* createX / dropX of the current step of an object-level alter
SagaStep(m) ==
    LET create == m.op.step \in {1, 4}
        m1 == IF m.op.kind = "alterRoutine" /\ create /\ m.schema # "public"
              THEN use(m, m.schema) ELSE m
    IN  StartRaw(m1, sagaSql(m.op.kind, m.op.step, m.schema, m.op.target),
                 [defaultArgs EXCEPT !.split = ~create])

\* a variant in which the for-loop goes on with the next statement
RejectKeepGoing(m, err) ==
    IF m.call.promise = "pending"
    THEN NextStmt([m EXCEPT !.call.promise = "rejected"])
    ELSE m

\* a variant in which the error is dropped
RejectSwallowed(m, err) == m

\* reject(err) of the statement's promise: the first settlement wins; the
\* await in raw throws and raw rejects
Reject(m, err) ==
    IF m.call.promise = "pending"
    THEN RawSettle([m EXCEPT !.call.promise = "rejected"], "rejected", err)
    ELSE m

\* resolve({...}) of the statement's promise, resultsArr.push and the next
\* turn of the for-loop; a no-op on a promise already rejected
Resolve(m) ==
    LET qr == m.cb.queryResult
        result == [duration |-> m.cb.timeStop - m.call.timeStart,
                   \* rows of the driver are objects here (nest rows were
                   \* rebuilt as objects), so none is array-shaped
                   rows |-> qr,
                   report |-> FALSE,
                   fields |-> m.cb.remappedFields,
                   keys |-> m.cb.keysArr]
    IN  IF m.call.promise = "pending"
        THEN NextStmt([m EXCEPT !.call.resultsArr = Append(@, result),
                                !.call.promise = "resolved",
                                !.cb = noCb])
        ELSE [m EXCEPT !.cb = noCb]

\* { ...a, ...b }: the attributes of both, those of b winning
spread(a, b) == b @@ a

\* a variant that keys a nest row by the column name alone
nestKeyColumnOnly(tablesInfo, fields, i) == fields[i].name

\* the key and value a nest row gets for result column i
nestKey(tablesInfo, fields, i) ==
    LET id == fields[i].tableID
        table == IF id \in DOMAIN tablesInfo THEN tablesInfo[id].table ELSE ""
    IN  (IF table # "" THEN table \o "." ELSE "") \o fields[i].name

\* rows.map(row => row.reduce(...)): one object per row, a later column
\* with the same key overwriting an earlier one
nestRows(tablesInfo, fields, rows) ==
    [r \in DOMAIN rows |->
        [key \in {nestKey(tablesInfo, fields, i) : i \in DOMAIN fields} |->
            rows[r][CHOOSE i \in DOMAIN fields :
                /\ nestKey(tablesInfo, fields, i) = key
                /\ \A j \in DOMAIN fields :
                      nestKey(tablesInfo, fields, j) = key => j <= i]]]

\* a variant without the nest branch: schema and table from the ast only
remapFieldAstOnly(this_schema, args, ast, tablesInfo, field) ==
    spread(field,
           [name |-> field.name,
            alias |-> field.name,
            schema |-> IF ast.parsed /\ ast.from /\ ast.hasSchema
                       THEN ast.schema ELSE this_schema,
            table |-> IF ast.parsed /\ ast.from THEN ast.name ELSE NULL,
            tableAlias |-> IF ast.parsed /\ ast.from THEN ast.as ELSE NULL,
            orgTable |-> IF ast.parsed /\ ast.from THEN ast.name ELSE NULL,
            type |-> IF types(field.dataTypeID) # NULL
                     THEN types(field.dataTypeID) ELSE "text"])

\* fields.map(field => ({ ...field, name, alias, schema, table, ... }))
remapField(this_schema, args, ast, tablesInfo, field) ==
    LET known == field.tableID \in DOMAIN tablesInfo
        s == IF args.nest
             THEN IF known THEN tablesInfo[field.tableID].schema ELSE this_schema
             ELSE IF ast.parsed /\ ast.from /\ ast.hasSchema
                  THEN ast.schema ELSE this_schema
        t == IF args.nest
             THEN IF known THEN tablesInfo[field.tableID].table ELSE NULL
             ELSE IF ast.parsed /\ ast.from THEN ast.name ELSE NULL
    IN  spread(field,
               [name |-> field.name,
                alias |-> field.name,
                schema |-> s,
                table |-> t,
                tableAlias |-> IF ast.parsed /\ ast.from THEN ast.as ELSE NULL,
                orgTable |-> IF ast.parsed /\ ast.from THEN ast.name ELSE NULL,
                type |-> IF types(field.dataTypeID) # NULL
                         THEN types(field.dataTypeID) ELSE "text"])

\* the distinct (table, schema) pairs of the fields, first occurrences kept
distinctParams(fields) ==
    LET all == [i \in DOMAIN fields |->
                    [table |-> fields[i].table, schema |-> fields[i].schema]]
        keep == {i \in DOMAIN all : \A j \in 1..(i - 1) : all[j] # all[i]}
        RECURSIVE pick(_)
        pick(i) == IF i > Len(all) THEN <<>>
                   ELSE (IF i \in keep THEN <<all[i]>> ELSE <<>>) \o pick(i + 1)
    IN  pick(1)

\* the merge of column and index details into the fields of paramObj
mergeDetails(fields, paramObj, columns, indexes) ==
    [n \in DOMAIN fields |->
        LET field == fields[n]
            hasCol == found(columns, LAMBDA f : f.name = field.name)
            hasIdx == found(indexes, LAMBDA i : i.column = field.name)
            mine == field.table = paramObj.table /\ field.schema = paramObj.schema
            f1 == IF mine /\ hasCol
                  THEN LET d == find(columns, LAMBDA f : f.name = field.name)
                           length == IF d.numPrecision # 0 THEN d.numPrecision
                                     ELSE IF d.charLength # 0 THEN d.charLength
                                     ELSE d.datePrecision
                       IN  spread(spread(field, d), [length |-> length])
                  ELSE field
        IN  IF mine /\ hasIdx
            THEN LET x == find(indexes, LAMBDA i : i.column = field.name)
                     key == IF x.type = "PRIMARY" THEN "pri"
                            ELSE IF x.type = "UNIQUE" THEN "uni" ELSE "mul"
                 IN  spread(f1, [key |-> key])
            ELSE f1]

columnsSql(paramObj) ==
    <<"SELECT * FROM information_schema.columns WHERE",
      paramObj.schema, paramObj.table>>
indexesSql(paramObj) == <<"WITH ndx_list AS ... relname =", paramObj.table>>
keyUsageSql(paramObj) ==
    <<"SELECT ... FROM information_schema.table_constraints WHERE",
      paramObj.schema, paramObj.table>>
tableByIDsSql(ids) ==
    <<"SELECT ... FROM pg_statio_all_tables WHERE relid IN">>
    \o [i \in 1..Cardinality(ids) |->
          ToString(CHOOSE id \in ids : Cardinality({x \in ids : x < id}) = i - 1)]

\* a variant without the test for a missing table or schema
DetailsLoopNoSkip(m, p) ==
    IF p > Len(m.cb.paramsArr)
    THEN Resolve(m)
    ELSE Send([m EXCEPT !.cb.p = p, !.cb.phase = "columns"],
              "columns", columnsSql(m.cb.paramsArr[p]))

\* for (const paramObj of paramsArr) from entry p on: entries without a table
\* or a schema are passed over; getTableColumns is started for the next
\* one, and after the last one the statement's promise is resolved
DetailsLoop(m, p) ==
    LET rest == {i \in DOMAIN m.cb.paramsArr :
                    /\ i >= p
                    /\ ~Falsy(m.cb.paramsArr[i].table)
                    /\ ~Falsy(m.cb.paramsArr[i].schema)}
    IN  IF rest = {}
        THEN Resolve(m)
        ELSE LET i == CHOOSE j \in rest : \A l \in rest : j <= l
             IN  Send([m EXCEPT !.cb.p = i, !.cb.phase = "columns"],
                      "columns", columnsSql(m.cb.paramsArr[i]))

\* the callback from remappedFields on
Shape(m) ==
    LET remapped == [i \in DOMAIN m.cb.fields |->
                        remapField(m.schema, m.call.args, m.cb.ast,
                                   m.cb.tablesInfo, m.cb.fields[i])]
        m1 == [m EXCEPT !.cb.remappedFields = remapped]
    IN  IF m.call.args.details /\ Len(remapped) # 0
        THEN DetailsLoop([m1 EXCEPT !.cb.paramsArr = distinctParams(remapped)], 1)
        ELSE Resolve(m1)

\* the callback after getTableByIDs returned tablesInfo
AfterNest(m, tablesInfo) ==
    Shape([m EXCEPT !.cb.tablesInfo = tablesInfo,
                    !.cb.queryResult = nestRows(tablesInfo, m.cb.fields, m.cb.rows)])

\* the query callback with a result, up to its first await
OnResult(m, query) ==
    LET nest == m.call.args.nest
        fields == pgFields(query)
        ids == {fields[i].tableID : i \in DOMAIN fields}
        m1 == [m EXCEPT !.cb = [noCb EXCEPT
                    !.phase = "nest", !.query = query, !.ast = parse(query),
                    !.timeStop = m.now, !.fields = fields,
                    !.rows = pgRows(query, IF nest THEN "array" ELSE "object")]]
    IN  IF nest
        THEN IF ids = {}
             THEN AfterNest(m1, <<>>)
             ELSE Send(m1, "tableByIDs", tableByIDsSql(ids))
        ELSE Shape([m1 EXCEPT !.cb.queryResult = m1.cb.rows])

\* getTableIndexes(paramObj) up to its await: use() for a schema other than
\* public, then the index query
StartIndexes(m) ==
    LET paramObj == m.cb.paramsArr[m.cb.p]
        m1 == IF paramObj.schema # "public" THEN use(m, paramObj.schema) ELSE m
    IN  Send([m1 EXCEPT !.cb.phase = "indexes"], "indexes", indexesSql(paramObj))

\* getKeyUsage(paramObj) up to its await
StartKeyUsage(m) ==
    Send([m EXCEPT !.cb.phase = "keyUsage"], "keyUsage",
         keyUsageSql(m.cb.paramsArr[m.cb.p]))

\* ---------------------------------------------------------------- alterView
\* a variant that replaces the view under its new name
alterViewSqlNewName(this_schema, view) ==
    <<"CREATE OR REPLACE VIEW", this_schema, ".", view.name, "AS", view.sql>>
    \o opt(view.name # view.oldName,
           <<SEMI, WS, "ALTER VIEW", this_schema, ".", view.oldName,
             "RENAME TO", view.name>>)

\* the sql text alterView hands to this.raw
alterViewSql(this_schema, view) ==
    <<"CREATE OR REPLACE VIEW", this_schema, ".", view.oldName, "AS", view.sql>>
    \o opt(view.name # view.oldName,
           <<SEMI, WS, "ALTER VIEW", this_schema, ".", view.oldName,
             "RENAME TO", view.name>>)

\* ---------------------------------------------------------------- getSQL
\* this._query after _resetQuery: every list empty
noQuery == [schema |-> "", select |-> <<>>, from |-> "", where |-> <<>>,
            groupBy |-> <<>>, orderBy |-> <<>>, limit |-> <<>>,
            update |-> <<>>, insert |-> <<>>, delete |-> FALSE]

\* list.reduce(this._reducer, []): the fragments of a list; an entry that
\* is a string or a number is one fragment
reduce(list) == [i \in DOMAIN list |-> <<list[i]>>]

\* `SELECT ${selectArray.join(', ')} `
selectRaw(q) ==
    opt(Len(reduce(q.select)) # 0, <<"SELECT">> \o join(reduce(q.select), <<",">>))

\* a variant that writes FROM for every descriptor without insert rows
fromRawAlwaysFrom(q) ==
    (IF Len(q.insert) # 0 THEN <<"INTO">>
     ELSE IF q.from # "" THEN <<"FROM">> ELSE <<>>)
    \o opt(q.from # "", opt(q.schema # "", <<q.schema, ".">>) \o <<q.from>>)

\* FROM, INTO or nothing, then the target
fromRaw(q) ==
    (IF Len(q.update) = 0 /\ Len(q.insert) = 0 /\ q.from # "" THEN <<"FROM">>
     ELSE IF Len(q.insert) # 0 THEN <<"INTO">>
     ELSE <<>>)
    \o opt(q.from # "", opt(q.schema # "", <<q.schema, ".">>) \o <<q.from>>)

\* `WHERE ${whereArray.join(' AND ')} `
whereRaw(q) ==
    opt(Len(reduce(q.where)) # 0, <<"WHERE">> \o join(reduce(q.where), <<"AND">>))

\* `SET ${updateArray.join(', ')} `
updateRaw(q) ==
    opt(Len(reduce(q.update)) # 0, <<"SET">> \o join(reduce(q.update), <<",">>))

\* `(${fieldsList.join(', ')}) VALUES ${rowsList.join(', ')} `: the fields of
\* the first row, then the values of every row
insertRaw(q) ==
    IF Len(q.insert) = 0 THEN <<>>
    ELSE LET fieldsList == [i \in DOMAIN q.insert[1] |-> <<q.insert[1][i][1]>>]
             rowsList == [r \in DOMAIN q.insert |->
                            <<"(">> \o join([i \in DOMAIN q.insert[r] |->
                                                <<q.insert[r][i][2]>>], <<",">>)
                            \o <<")">>]
         IN  <<"(">> \o join(fieldsList, <<",">>) \o <<")", "VALUES">>
             \o join(rowsList, <<",">>)

\* `GROUP BY ${groupByArray.join(', ')} `
groupByRaw(q) ==
    opt(Len(reduce(q.groupBy)) # 0, <<"GROUP BY">> \o join(reduce(q.groupBy), <<",">>))

\* `ORDER BY ${orderByArray.join(', ')} `
orderByRaw(q) ==
    opt(Len(reduce(q.orderBy)) # 0, <<"ORDER BY">> \o join(reduce(q.orderBy), <<",">>))

\* a variant that does not look at the select list
limitRawAlways(q) ==
    opt(Len(q.limit) # 0,
        <<"LIMIT">> \o join([i \in DOMAIN q.limit |-> <<q.limit[i]>>], <<",">>))

\* `LIMIT ${this._query.limit.join(', ')} `
limitRaw(q) ==
    opt(Len(reduce(q.select)) # 0 /\ Len(q.limit) # 0,
        <<"LIMIT">> \o join([i \in DOMAIN q.limit |-> <<q.limit[i]>>], <<",">>))

\* a variant that writes WHERE after LIMIT
getSQLWhereLast(q) ==
    selectRaw(q) \o opt(updateRaw(q) # <<>>, <<"UPDATE">>)
    \o opt(insertRaw(q) # <<>>, <<"INSERT">>) \o opt(q.delete, <<"DELETE">>)
    \o fromRaw(q) \o updateRaw(q) \o groupByRaw(q) \o orderByRaw(q)
    \o limitRaw(q) \o whereRaw(q) \o insertRaw(q)

\* getSQL(): the text of this._query, whitespace-normalised (every fragment
\* the code writes ends with a blank, and UPDATE is followed by the blank
\* that starts the target)
getSQL(q) ==
    selectRaw(q) \o opt(updateRaw(q) # <<>>, <<"UPDATE">>)
    \o opt(insertRaw(q) # <<>>, <<"INSERT">>) \o opt(q.delete, <<"DELETE">>)
    \o fromRaw(q) \o updateRaw(q) \o whereRaw(q) \o groupByRaw(q)
    \o orderByRaw(q) \o limitRaw(q) \o insertRaw(q)

\* ---------------------------------------------------------------- inputs
RECURSIVE seqsUpTo(_, _)
\* the sequences over S of length at most n
seqsUpTo(S, n) ==
    IF n = 0 THEN {<<>>}
    ELSE LET shorter == seqsUpTo(S, n - 1)
         IN  shorter \cup {Append(q, x) : q \in {r \in shorter : Len(r) = n - 1}, x \in S}

Alphabet == {SEMI, WS, Q_JOIN, Q_ONE, Q_LOCK}
Texts == seqsUpTo(Alphabet, MaxLen)
Args == [nest : BOOLEAN, details : BOOLEAN, split : BOOLEAN]
Schemas == {"public", "s1"}
Targets == {[name |-> "p", oldName |-> "p"], [name |-> "q", oldName |-> "p"]}

column(name, orgName, type, charLength, nullable, default) ==
    [name |-> name, orgName |-> orgName, type |-> type, numLength |-> 0,
     charLength |-> charLength, datePrecision |-> 0, isArray |-> FALSE,
     unsigned |-> FALSE, zerofill |-> FALSE, nullable |-> nullable,
     autoIncrement |-> FALSE, default |-> default, comment |-> "",
     collation |-> "", onUpdate |-> ""]

index(name, oldName, type, oldType) ==
    [name |-> name, oldName |-> oldName, type |-> type, oldType |-> oldType,
     fields |-> <<"a">>]

foreign == [constraintName |-> "fk", oldName |-> "fk", field |-> "a",
            refTable |-> "t2", refField |-> "b", onUpdate |-> "CASCADE",
            onDelete |-> "CASCADE"]

indexTypes == {"PRIMARY", "UNIQUE", "INDEX"}

\* the entries a SchemaDiff is drawn from, each with the rank of its list
DiffItems ==
    {[rank |-> 1, item |-> column("c", "c", "INTEGER", 0, TRUE, "")],
     [rank |-> 1, item |-> column("c", "c", "varchar", 10, FALSE, "0")],
     [rank |-> 1, item |-> column("c", "c", "GEOMETRY", 0, TRUE, "")]}
    \cup {[rank |-> 2, item |-> index("j", "j", t, t)] : t \in indexTypes}
    \cup {[rank |-> 3, item |-> foreign]}
    \cup {[rank |-> 4, item |-> column(n, "a", t, 0, TRUE, "")] :
            n \in {"a", "b"}, t \in {"INTEGER", "SERIAL"}}
    \cup {[rank |-> 4, item |-> column("a", "a", t, 0, TRUE, "")] :
            t \in {"SMALLSERIAL", "BIGSERIAL", "GEOMETRY"}}
    \cup {[rank |-> 4, item |-> column("a", "a", "VARCHAR", 10, FALSE, "0")]}
    \cup {[rank |-> 5, item |-> index("i", "i", x[1], x[2])] :
            x \in {<<"PRIMARY", "INDEX">>, <<"UNIQUE", "PRIMARY">>,
                   <<"INDEX", "UNIQUE">>, <<"INDEX", "INDEX">>}}
    \cup {[rank |-> 6, item |-> foreign]}
    \cup {[rank |-> 7, item |-> column("d", "d", "INTEGER", 0, TRUE, "")]}
    \cup {[rank |-> 8, item |-> index("k", "k", t, t)] : t \in {"PRIMARY", "INDEX"}}
    \cup {[rank |-> 9, item |-> foreign]}

DiffOptions ==
    {[noOptions EXCEPT !.keys = {}, !.comment = "x", !.name = ""],
     [noOptions EXCEPT !.keys = {"comment"}, !.comment = "x", !.name = "t2"]}

\* the list of rank r of a diff whose entries are es
ofRank(es, r) ==
    LET sel == SelectSeq(es, LAMBDA e : e.rank = r)
    IN  [i \in DOMAIN sel |-> sel[i].item]

\* the SchemaDiffs of at most MaxItems entries (the entries of a list keep
\* their order)
Diffs ==
    {[table |-> "t",
      additions |-> ofRank(es, 1),
      indexChanges |-> [additions |-> ofRank(es, 2), changes |-> ofRank(es, 5),
                        deletions |-> ofRank(es, 8)],
      foreignChanges |-> [additions |-> ofRank(es, 3), changes |-> ofRank(es, 6),
                          deletions |-> ofRank(es, 9)],
      changes |-> ofRank(es, 4),
      deletions |-> ofRank(es, 7),
      options |-> o] :
        es \in {q \in seqsUpTo(DiffItems, MaxItems) :
                  \A i \in 1..(Len(q) - 1) : q[i].rank <= q[i + 1].rank},
        o \in DiffOptions}

\* ---------------------------------------------------------------- actions
\* the state as one value, and whether the caller already has its answer
M == [schema |-> schema, op |-> op, call |-> call, cb |-> cb,
      inflight |-> inflight, sent |-> sent, now |-> now, pool |-> pool,
      late |-> op.status \in {"resolved", "rejected"}]

Commit(m) ==
    /\ schema' = m.schema
    /\ op' = m.op
    /\ call' = m.call
    /\ cb' = m.cb
    /\ inflight' = m.inflight
    /\ sent' = m.sent
    /\ now' = m.now
    /\ pool' = m.pool
    /\ UNCHANGED <<connection, this_query>>

\* the caller invokes operations one at a time
Quiescent == op.status = "idle"

\* the previous operation has settled (or hangs for good), its callback has
\* run to its end and the connection is idle: the caller takes the outcome,
\* and the record kept of the operation is dropped
Return ==
    /\ op.status # "idle"
    /\ inflight = <<>>
    /\ cb.phase \in {"none", "hung"}
    /\ op.status # "running" \/ cb.phase = "hung"
    /\ op' = noOp
    /\ call' = noCall
    /\ cb' = noCb
    /\ sent' = <<>>
    /\ now' = 0
    /\ pool' = [pool EXCEPT !.stale = FALSE]
    /\ UNCHANGED <<schema, inflight, connection, this_query>>

\* the state a new operation of that kind starts from
Fresh(kind) ==
    [schema |-> schema, call |-> noCall, cb |-> noCb, inflight |-> <<>>,
     sent |-> <<>>, now |-> 0, late |-> FALSE, pool |-> pool,
     op |-> [noOp EXCEPT !.kind = kind, !.status = "running"]]

\* raw(sql, args) called by the user of the client
CallRaw ==
    /\ Quiescent
    /\ \E sql \in Texts, args \in Args :
        Commit(StartRaw([Fresh("raw") EXCEPT !.op.sql = sql, !.op.args = args],
                           sql, args))

\* use(schema) called by the user of the client
CallUse ==
    /\ Quiescent
    /\ \E s \in Schemas :
        LET sql == <<"SET search_path TO", s>>
           IN  Commit(StartRaw([Fresh("use") EXCEPT !.schema = s, !.op.sql = sql],
                               sql, defaultArgs))

\* alterView(params)
CallAlterView ==
    /\ Quiescent
    /\ \E t \in Targets :
        LET sql == alterViewSql(schema, [name |-> t.name, oldName |-> t.oldName,
                                            sql |-> "SELECT 1"])
           IN  Commit(StartRaw([Fresh("alterView") EXCEPT !.op.target = t,
                                                          !.op.sql = sql],
                               sql, defaultArgs))

\* alterRoutine / alterFunction / alterTrigger (params)
CallSaga ==
    /\ Quiescent
    /\ \E kind \in sagas, t \in Targets :
        Commit(SagaStep([Fresh(kind) EXCEPT !.op.target = t, !.op.step = 1]))

\* alterTable(params)
CallAlterTable ==
    /\ Quiescent
    /\ \E params \in Diffs :
        LET m == [Fresh("alterTable") EXCEPT !.op.params = params]
           IN  IF alterTableThrows(params)
               THEN Commit([m EXCEPT !.op.status = "rejected",
                                     !.op.error = <<"TypeError">>])
               ELSE LET sql == alterTableSql(schema, params)
                    IN  Commit(StartRaw([m EXCEPT !.op.sql = sql], sql, defaultArgs))

\* a Client answers its queries one at a time in the order it got them; the
\* connections of a Pool answer in any order
CanAnswer(i) ==
    /\ i \in DOMAIN inflight
    /\ connection = "client" => i = 1

errorOf(q) == <<"error", q.role>> \o q.text

\* the sessions of a Pool: each physical connection has its own search_path,
\* the server's default until a SET search_path ran on it
noPool == [track |-> FALSE, searchPath |-> [h \in 1..PoolSize |-> "default"],
           stale |-> FALSE]

\* the physical connections a query may run on; which one it was is looked
\* at only when the sessions are observed
Handles == IF pool.track THEN 1..PoolSize ELSE {1}

\* query q ran on physical connection h: a SET search_path changes that
\* session; a statement of a raw call that runs on a session whose
\* search_path is not the schema chosen with use(), while the SET for that
\* schema did run on some session, is noted
ranOn(q, ok, h) ==
    LET set == q.text # <<>> /\ q.text[1] = "SET search_path TO"
        batch == q.role = "stmt" /\ op.kind = "raw"
    IN  IF ~pool.track THEN pool
        ELSE [pool EXCEPT
                !.searchPath[h] = IF set /\ ok THEN q.text[2] ELSE @,
                !.stale = \/ @
                          \/ /\ batch
                             /\ schema \notin {NULL, "public"}
                             /\ \E g \in 1..PoolSize : pool.searchPath[g] = schema
                             /\ pool.searchPath[h] # schema]

\* the state in which the callback of query i runs, the query having run on
\* physical connection h
Answered(i, ok, h) ==
    LET q == inflight[i]
        d == IF q.role = "stmt" THEN latency(q.text) ELSE 0
    IN  [M EXCEPT
            !.pool = ranOn(q, ok, h),
            !.inflight = SubSeq(@, 1, i - 1) \o SubSeq(@, i + 1, Len(@)),
            !.now = @ + d,
            !.sent[q.id].outcome = IF ok THEN "ok" ELSE "err",
            !.sent[q.id].doneAt = now + d]

\* the callback of a statement's query
AnswerStmt ==
    \E i \in DOMAIN inflight, ok \in BOOLEAN, h \in Handles :
        /\ CanAnswer(i)
        /\ inflight[i].role = "stmt"
        /\ LET m == Answered(i, ok, h)
           IN  Commit(IF ok THEN OnResult(m, inflight[i].text)
                      ELSE Reject(m, errorOf(inflight[i])))

\* the SET search_path of a use() nobody awaits: its outcome, whichever it
\* is, is dropped
AnswerSetSchema ==
    \E i \in DOMAIN inflight, h \in Handles :
        /\ CanAnswer(i)
        /\ inflight[i].role = "setSchema"
        /\ Commit([Answered(i, TRUE, h) EXCEPT !.sent[inflight[i].id].outcome = "dropped"])

\* getTableByIDs answered: on an error the async callback rejects and the
\* statement's promise is never settled
AnswerTableByIDs ==
    \E i \in DOMAIN inflight, ok \in BOOLEAN, h \in Handles :
        /\ CanAnswer(i)
        /\ inflight[i].role = "tableByIDs"
        /\ LET m == Answered(i, ok, h)
               ids == {cb.fields[n].tableID : n \in DOMAIN cb.fields}
           IN  Commit(IF ok THEN AfterNest(m, tableByIDs(ids))
                      ELSE [m EXCEPT !.cb.phase = "hung"])

\* getTableColumns answered: getTableIndexes follows; on an error the catch
\* block rejects and getKeyUsage follows
AnswerColumns ==
    \E i \in DOMAIN inflight, ok \in BOOLEAN, h \in Handles :
        /\ CanAnswer(i)
        /\ inflight[i].role = "columns"
        /\ LET m == Answered(i, ok, h)
               paramObj == cb.paramsArr[cb.p]
               rows == columnRows(paramObj.schema, paramObj.table)
           IN  Commit(IF ok
                      THEN StartIndexes([m EXCEPT !.cb.columns =
                              [n \in DOMAIN rows |-> columnDescriptor(rows[n])]])
                      ELSE StartKeyUsage(Reject(m, errorOf(inflight[i]))))

\* getTableIndexes answered: the details are merged into the fields; on an
\* error the catch block rejects; getKeyUsage follows
AnswerIndexes ==
    \E i \in DOMAIN inflight, ok \in BOOLEAN, h \in Handles :
        /\ CanAnswer(i)
        /\ inflight[i].role = "indexes"
        /\ LET m == Answered(i, ok, h)
               paramObj == cb.paramsArr[cb.p]
               rows == indexRows(paramObj.table)
               indexes == [n \in DOMAIN rows |-> indexDescriptor(rows[n])]
           IN  Commit(IF ok
                      THEN StartKeyUsage([m EXCEPT !.cb.remappedFields =
                              mergeDetails(@, paramObj, cb.columns, indexes)])
                      ELSE StartKeyUsage(Reject(m, errorOf(inflight[i]))))

\* getKeyUsage answered: the rows are added to keysArr; on an error the catch
\* block rejects; the loop goes on with the next paramObj
AnswerKeyUsage ==
    \E i \in DOMAIN inflight, ok \in BOOLEAN, h \in Handles :
        /\ CanAnswer(i)
        /\ inflight[i].role = "keyUsage"
        /\ LET m == Answered(i, ok, h)
               paramObj == cb.paramsArr[cb.p]
               rows == keyUsageRows(paramObj.schema, paramObj.table)
               response == [n \in DOMAIN rows |-> keyUsageDescriptor(rows[n])]
           IN  Commit(IF ok
                      THEN DetailsLoop([m EXCEPT !.cb.keysArr = @ \o response],
                                       cb.p + 1)
                      ELSE DetailsLoop(Reject(m, errorOf(inflight[i])), cb.p + 1))

\* ---------------------------------------------------------------- specifications
\* after construction and connect(): no schema was chosen yet
Init ==
    /\ schema = NULL
    /\ op = noOp
    /\ call = noCall
    /\ cb = noCb
    /\ inflight = <<>>
    /\ sent = <<>>
    /\ now = 0
    /\ connection \in {"client", "pool"}
    /\ pool = noPool
    /\ this_query = noQuery

Next ==
    \/ CallRaw
    \/ CallUse
    \/ CallAlterView
    \/ CallSaga
    \/ AnswerStmt
    \/ AnswerSetSchema
    \/ AnswerTableByIDs
    \/ AnswerColumns
    \/ AnswerIndexes
    \/ AnswerKeyUsage
    \/ Return

Spec == Init /\ [][Next]_vars

\* raw alone, on a backend that answers every query it was sent: the
\* callback of some query in flight is eventually called
Answer ==
    \/ AnswerStmt
    \/ AnswerSetSchema
    \/ AnswerTableByIDs
    \/ AnswerColumns
    \/ AnswerIndexes
    \/ AnswerKeyUsage

NextRaw ==
    \/ CallRaw
    \/ AnswerStmt
    \/ AnswerSetSchema
    \/ AnswerTableByIDs
    \/ AnswerColumns
    \/ AnswerIndexes
    \/ AnswerKeyUsage
    \/ Return

InitRaw == Init /\ connection = "client"

SpecAnswered == InitRaw /\ [][NextRaw]_vars /\ WF_vars(Answer)

\* the DDL synthesizer: alterTable on a context whose schema was chosen
InitAlter ==
    /\ schema \in Schemas
    /\ op = noOp
    /\ call = noCall
    /\ cb = noCb
    /\ inflight = <<>>
    /\ sent = <<>>
    /\ now = 0
    /\ connection = "client"
    /\ pool = noPool
    /\ this_query = noQuery

NextAlter ==
    \/ CallAlterTable
    \/ AnswerStmt
    \/ Return

SpecAlter == InitAlter /\ [][NextAlter]_vars

\* ---------------------------------------------------------------- connect / destroy
\* this._connection holds a handle that was not ended
Live == connection \in {"client", "pool"}

\* connect(): a Client when no pool size is configured, else a Pool
Connect ==
    /\ Quiescent
    /\ ~Live
    /\ \E poolSize \in {0, 1} :
          connection' = IF poolSize = 0 THEN "client" ELSE "pool"
    /\ UNCHANGED <<schema, op, call, cb, inflight, sent, now, pool, this_query>>

\* destroy(): this._connection.end(); the ended handle stays in
\* this._connection
Destroy ==
    /\ Quiescent
    /\ Live
    /\ inflight = <<>>
    /\ connection' = IF connection = "client" THEN "clientEnded" ELSE "poolEnded"
    /\ UNCHANGED <<schema, op, call, cb, inflight, sent, now, pool, this_query>>

\* what this._connection.query does with the first statement when the
\* handle is not live: undefined.query throws a TypeError inside the promise
\* executor; an ended Client or Pool calls back with the driver's own error
\* without sending anything
offError ==
    IF connection = "none" THEN <<"TypeError">>
    ELSE <<"error", "driver", connection>>

\* raw(sql, args) on a context whose handle is not live
rawOff(m, sql, args) ==
    LET queries == IF args.split THEN splitAt(sql, SEMI) ELSE <<sql>>
        m1 == [m EXCEPT !.op.rawCalls = @ + 1,
                        !.call = [noCall EXCEPT !.args = args, !.queries = queries]]
    IN  IF \A i \in DOMAIN queries : queries[i] = <<>>
        THEN [m1 EXCEPT !.op.status = "resolved", !.op.ret = returnValue(<<>>)]
        ELSE [m1 EXCEPT !.op.status = "rejected", !.op.error = offError]

\* raw(sql, args) called on a context never connected or destroyed
CallRawOff ==
    /\ Quiescent
    /\ ~Live
    /\ \E sql \in Texts, args \in Args :
          Commit(rawOff([Fresh("raw") EXCEPT !.op.sql = sql, !.op.args = args],
                        sql, args))

\* use(schema) called on a context never connected or destroyed
CallUseOff ==
    /\ Quiescent
    /\ ~Live
    /\ \E s \in Schemas :
          LET sql == <<"SET search_path TO", s>>
          IN  Commit(rawOff([Fresh("use") EXCEPT !.schema = s, !.op.sql = sql],
                            sql, defaultArgs))

\* the life of a context: constructed, connected, used, destroyed
InitLife ==
    /\ schema = NULL
    /\ op = noOp
    /\ call = noCall
    /\ cb = noCb
    /\ inflight = <<>>
    /\ sent = <<>>
    /\ now = 0
    /\ connection = "none"
    /\ pool = noPool
    /\ this_query = noQuery

NextLife ==
    \/ Connect
    \/ Destroy
    \/ CallRawOff
    \/ CallUseOff
    \/ Live /\ CallRaw
    \/ Live /\ CallUse
    \/ AnswerStmt
    \/ AnswerTableByIDs
    \/ AnswerSetSchema
    \/ AnswerColumns
    \/ AnswerIndexes
    \/ AnswerKeyUsage
    \/ Return

SpecLife == InitLife /\ [][NextLife]_vars

\* the QueryDescriptors the builder is rendered from: an update, insert or
\* delete descriptor names its target
insertRow(v) == << <<"a", v>>, <<"b", "2">> >>

QueryDescriptors ==
    {q \in [schema : {"", "s"},
            select : seqsUpTo({"a", "b"}, MaxItems),
            from : {"", "t"},
            where : seqsUpTo({"id = 1", "x > 2"}, MaxItems),
            groupBy : {<<>>, <<"a">>},
            orderBy : {<<>>, <<"a ASC">>},
            limit : {<<>>, <<"10">>},
            update : seqsUpTo({"a = 1"}, MaxItems),
            insert : {<<>>, <<insertRow("1")>>, <<insertRow("1"), insertRow("3")>>},
            delete : BOOLEAN] :
        (Len(q.update) # 0 \/ Len(q.insert) # 0 \/ q.delete) => q.from # ""}

\* getSQL() called on the descriptor the builder holds
GetSQL ==
    /\ Quiescent
    /\ op' = [noOp EXCEPT !.kind = "getSQL", !.status = "resolved",
                          !.sql = getSQL(this_query)]
    /\ UNCHANGED <<schema, call, cb, inflight, sent, now, connection, pool, this_query>>

InitSQL ==
    /\ schema = NULL
    /\ op = noOp
    /\ call = noCall
    /\ cb = noCb
    /\ inflight = <<>>
    /\ sent = <<>>
    /\ now = 0
    /\ connection = "client"
    /\ pool = noPool
    /\ this_query \in QueryDescriptors

NextSQL ==
    \/ GetSQL
    \/ Return

SpecSQL == InitSQL /\ [][NextSQL]_vars

\* getStructure(schemas)
CallGetStructure ==
    /\ Quiescent
    /\ \E schemas \in SUBSET {"public", "s1", "s2"} :
          Commit(StructureStep([Fresh("getStructure") EXCEPT
                    !.op.params = [schemas |-> schemas], !.op.step = 1]))

InitStructure ==
    /\ schema \in {NULL} \cup Schemas
    /\ op = noOp
    /\ call = noCall
    /\ cb = noCb
    /\ inflight = <<>>
    /\ sent = <<>>
    /\ now = 0
    /\ connection \in {"client", "pool"}
    /\ pool = noPool
    /\ this_query = noQuery

NextStructure ==
    \/ CallGetStructure
    \/ AnswerStmt
    \/ Return

SpecStructure == InitStructure /\ [][NextStructure]_vars

\* the (data_type, udt_name) pairs information_schema.columns answers with
ColumnKinds ==
    { <<<<"i", "n", "t", "e", "g", "e", "r">>,
        <<"i", "n", "t", "4">>>>,
      <<<<"t", "e", "x", "t">>,
        <<"t", "e", "x", "t">>>>,
      <<<<"U", "S", "E", "R", "-", "D", "E", "F", "I", "N", "E", "D">>,
        <<"c", "u", "s", "t", "o", "m">>>>,
      <<<<"A", "R", "R", "A", "Y">>,
        <<"_", "i", "n", "t", "4">>>>,
      <<<<"A", "R", "R", "A", "Y">>,
        <<"_", "v", "a", "r", "c", "h", "a", "r">>>>,
      <<<<"A", "R", "R", "A", "Y">>,
        <<"_", "c", "u", "s", "t", "o", "m">>>>,
      <<<<"A", "R", "R", "A", "Y">>,
        <<"_", "m", "y", "_", "t">>>>,
      <<<<"A", "R", "R", "A", "Y">>,
        <<"_", "c", "h", "a", "r">>>> }

\* the rows of information_schema.columns for a table
ColumnRows ==
    {[i \in DOMAIN kinds |->
        [column_name |-> "c" \o ToString(i), data_type |-> kinds[i][1],
         udt_name |-> kinds[i][2], table_schema |-> "public",
         table_name |-> "t1", numeric_precision |-> NULL,
         datetime_precision |-> NULL, character_maximum_length |-> NULL,
         is_nullable |-> IF i = 1 THEN "NO" ELSE "YES",
         ordinal_position |-> i, column_default |-> NULL,
         character_set_name |-> NULL, collation_name |-> NULL]] :
     kinds \in seqsUpTo(ColumnKinds, MaxItems)}

\* getTableColumns({ schema, table }, arrayRemap)
CallGetTableColumns ==
    /\ Quiescent
    /\ \E rows \in ColumnRows, arrayRemap \in BOOLEAN :
          Commit(StartRaw([Fresh("getTableColumns") EXCEPT
                              !.op.params = [rows |-> rows, arrayRemap |-> arrayRemap]],
                          getSQL([noQuery EXCEPT
                              !.select = <<"*">>,
                              !.schema = "information_schema",
                              !.from = "columns",
                              !.where = <<"table_schema = 'public'", "table_name = 't1'">>,
                              !.orderBy = <<"ordinal_position ASC">>]),
                          defaultArgs))

InitColumns == InitStructure

NextColumns ==
    \/ CallGetTableColumns
    \/ AnswerStmt
    \/ Return

SpecColumns == InitColumns /\ [][NextColumns]_vars

\* what the catalog answers to the information queries: the rows of
\* pg_views, the rows of SHOW CREATE TRIGGER, the text pg_get_functiondef
\* returns (NULL for a name pg_proc does not know) and the parameter rows
ViewRows == {<<>>, <<[definition |-> "SELECT 1"]>>}

TriggerRows ==
    {<<>>,
     <<[Trigger |-> "trg",
        statement |-> <<"CREATE", "DEFINER=", "root", "TRIGGER", "trg", "BEFORE",
                        "INSERT", "ON", "t1", "FOR EACH ROW", "BEGIN", "x", "END">>]>>,
     <<[Trigger |-> "trg",
        statement |-> <<"CREATE", "TRIGGER", "trg", "AFTER", "UPDATE", "ON", "t1",
                        "FOR EACH ROW", "EXECUTE FUNCTION tf()">>]>>}

functionHead(returns) ==
    <<"CREATE OR REPLACE FUNCTION public.f()">> \o returns \o <<"LANGUAGE", "sql">>

FunctionDefinitions ==
    {NULL,
     functionHead(<<"RETURNS SETOF", "integer">>)
        \o <<"AS", "$function$", "SELECT 1", "$function$">>,
     functionHead(<<"RETURNS SETOF", "integer">>)
        \o <<"SECURITY DEFINER", "AS", "$function$", "SELECT 1", "$function$">>,
     functionHead(<<"RETURNS", "integer">>)
        \o <<"AS", "$function$", "SELECT 1", "$function$">>,
     functionHead(<<"RETURNS SETOF", "integer">>)
        \o <<"BEGIN ATOMIC", "SELECT 1", SEMI, "END">>}

RoutineDefinitions ==
    {NULL,
     <<"CREATE OR REPLACE PROCEDURE public.p()", "LANGUAGE", "sql",
       "AS", "$procedure$", "SELECT 1", "$procedure$">>,
     <<"CREATE OR REPLACE PROCEDURE public.p()", "LANGUAGE", "sql",
       "SECURITY DEFINER", "AS", "$procedure$", "SELECT 1", "$procedure$">>,
     <<"CREATE OR REPLACE PROCEDURE public.p()", "LANGUAGE", "sql",
       "BEGIN ATOMIC", "SELECT 1", SEMI, "END">>}

\* the LEFT JOIN gives a routine without parameters one row of nulls
ParameterRows ==
    {<<>>,
     <<[parameter_name |-> NULL, parameter_mode |-> NULL, data_type |-> NULL]>>,
     <<[parameter_name |-> "a", parameter_mode |-> "IN", data_type |-> "integer"]>>}

noAnswer == [name |-> "", rows |-> <<>>, definition |-> NULL, parameters |-> <<>>]

InformationCall(kind, answer) ==
    Commit(StartRaw([Fresh(kind) EXCEPT !.op.params = answer, !.op.step = 1],
                    informationSql(kind, answer.name), defaultArgs))

\* getViewInformations({ schema, view })
CallGetViewInformations ==
    /\ Quiescent
    /\ \E rows \in ViewRows :
          InformationCall("getViewInformations",
                          [noAnswer EXCEPT !.name = "v", !.rows = rows])

\* getTriggerInformations({ schema, trigger })
CallGetTriggerInformations ==
    /\ Quiescent
    /\ \E rows \in TriggerRows :
          InformationCall("getTriggerInformations",
                          [noAnswer EXCEPT !.name = "trg", !.rows = rows])

\* getRoutineInformations({ schema, routine })
CallGetRoutineInformations ==
    /\ Quiescent
    /\ \E def \in RoutineDefinitions, rows \in ParameterRows :
          InformationCall("getRoutineInformations",
                          [noAnswer EXCEPT !.name = "p", !.definition = def,
                                           !.parameters = rows])

\* getFunctionInformations({ schema, func })
CallGetFunctionInformations ==
    /\ Quiescent
    /\ \E def \in FunctionDefinitions, rows \in ParameterRows :
          InformationCall("getFunctionInformations",
                          [noAnswer EXCEPT !.name = "f", !.definition = def,
                                           !.parameters = rows])

InitInformations == InitStructure

NextInformations ==
    \/ CallGetViewInformations
    \/ CallGetTriggerInformations
    \/ CallGetRoutineInformations
    \/ CallGetFunctionInformations
    \/ AnswerStmt
    \/ Return

SpecInformations == InitInformations /\ [][NextInformations]_vars

\* a context connected in pooled mode, the sessions of the pool observed
InitPool ==
    /\ schema = NULL
    /\ op = noOp
    /\ call = noCall
    /\ cb = noCb
    /\ inflight = <<>>
    /\ sent = <<>>
    /\ now = 0
    /\ connection = "pool"
    /\ pool = [noPool EXCEPT !.track = TRUE]
    /\ this_query = noQuery

SpecPool == InitPool /\ [][Next]_vars

\* ---------------------------------------------------------------- reading a batch
\* the statements of a sql text: its fragments that hold more than blanks
statements(sql) ==
    LET frags == splitAt(sql, SEMI)
        st == SelectSeq(frags, LAMBDA f : body(f) # <<>>)
    IN  [i \in DOMAIN st |-> body(st[i])]

has(text, tok) == \E i \in DOMAIN text : text[i] = tok
count(text, tok) == Cardinality({i \in DOMAIN text : text[i] = tok})

\* the place of a statement in the order the contract of alterTable gives
stmtRank(st) ==
    CASE st[1] = "CREATE SEQUENCE IF NOT EXISTS" -> 1
      [] st[1] = "DROP INDEX" -> 2
      [] st[1] = "CREATE INDEX" -> 4
      [] st[1] = "ALTER TABLE" /\ has(st, "RENAME COLUMN") -> 5
      [] st[1] = "ALTER TABLE" /\ has(st, "RENAME TO") -> 6
      [] OTHER -> 3

\* the sub-clauses of the main ALTER TABLE statement of a batch
mainClauses(sql) ==
    LET st == statements(sql)
        main == SelectSeq(st, LAMBDA x : stmtRank(x) = 3)
    IN  IF Len(main) = 0 THEN <<>>
        ELSE splitAt(SubSeq(main[1], 5, Len(main[1])), ", ")

\* what the ALTER COLUMN sub-clauses of column c are about, in order
alterColumnKinds(sql, c) ==
    LET cl == SelectSeq(mainClauses(sql),
                        LAMBDA x : Len(x) >= 3 /\ x[1] = "ALTER COLUMN" /\ x[2] = c)
    IN  [i \in DOMAIN cl |->
            IF cl[i][3] = "TYPE" /\ has(cl[i], "USING") THEN "type"
            ELSE IF cl[i][3] \in {"DROP NOT NULL", "SET NOT NULL"} THEN "nullability"
            ELSE IF cl[i][3] = "SET DEFAULT" /\ cl[i][4] = "nextval(" THEN "nextval"
            ELSE IF cl[i][3] \in {"SET DEFAULT", "DROP DEFAULT"} THEN "default"
            ELSE "other"]

\* the queries of the operation that are statements of a raw call, in the
\* order they were sent, and their places in sent
stmtPlaces == {j \in DOMAIN sent : sent[j].role = "stmt"}
stmtsSent == SelectSeq(sent, LAMBDA q : q.role = "stmt")
lookupRoles == {"columns", "indexes", "keyUsage"}

alterTableRendered == op.kind = "alterTable" /\ op.rawCalls = 1

\* ---------------------------------------------------------------- claims
\* C1: the batch alterTable renders lists its statements in the order
\* CREATE SEQUENCE, index drops, the one main ALTER TABLE, CREATE INDEX,
\* column renames, table rename.
C1_BatchOrder ==
    alterTableRendered =>
        LET st == statements(op.sql)
        IN  /\ \A i, j \in DOMAIN st : i < j => stmtRank(st[i]) <= stmtRank(st[j])
            /\ Cardinality({i \in DOMAIN st : stmtRank(st[i]) = 3}) <= 1

onlyAdditions(params) ==
    /\ params.changes = <<>> /\ params.deletions = <<>>
    /\ params.indexChanges.changes = <<>> /\ params.indexChanges.deletions = <<>>
    /\ params.foreignChanges.changes = <<>> /\ params.foreignChanges.deletions = <<>>
    /\ Falsy(params.options.name)

\* C2: for a diff with additions only the batch is sequence creates, the
\* combined ALTER TABLE, index creates, and holds no rename and no drop.
C2_AdditionsOrder ==
    alterTableRendered /\ onlyAdditions(op.params) =>
        LET st == statements(op.sql)
        IN  /\ \A i \in DOMAIN st : stmtRank(st[i]) \in {1, 3, 4}
            /\ \A i, j \in DOMAIN st : i < j => stmtRank(st[i]) <= stmtRank(st[j])
            /\ \A tok \in {"DROP INDEX", "DROP COLUMN", "DROP CONSTRAINT",
                           "DROP PRIMARY KEY", "RENAME COLUMN", "RENAME TO"} :
                  ~has(op.sql, tok)

\* the sub-clause kinds expected for column c when every change entry of c
\* gives the kinds per(change)
expectedKinds(changes, c, per(_)) ==
    LET mine == SelectSeq(changes, LAMBDA ch : ch.orgName = c)
    IN  flat([i \in DOMAIN mine |-> per(mine[i])])

\* C3 as stated: every changed column, serial or not, gets exactly the three
\* ALTER COLUMN sub-clauses type, nullability, default, in that order.
C3_ThreeClausesAlways ==
    alterTableRendered =>
        \A n \in DOMAIN op.params.changes :
            LET c == op.params.changes[n].orgName
            IN  alterColumnKinds(op.sql, c) =
                    expectedKinds(op.params.changes, c,
                                  LAMBDA ch : <<"type", "nullability", "default">>)

\* C3 amended: a changed column gets the three ALTER COLUMN sub-clauses type
\* (with its USING cast), nullability, default, in that order; when its new
\* type is SERIAL, SMALLSERIAL or BIGSERIAL a fourth one follows, which sets
\* the default to nextval of the column's sequence.
C3_ThreeClausesPlusNextval ==
    alterTableRendered =>
        \A n \in DOMAIN op.params.changes :
            LET c == op.params.changes[n].orgName
            IN  alterColumnKinds(op.sql, c) =
                    expectedKinds(op.params.changes, c,
                        LAMBDA ch :
                            IF ch.type \in {"SERIAL", "SMALLSERIAL", "BIGSERIAL"}
                            THEN <<"type", "nullability", "default", "nextval">>
                            ELSE <<"type", "nullability", "default">>)

C3_Witness ==
    /\ alterTableRendered
    /\ \E n \in DOMAIN op.params.changes : op.params.changes[n].type = "BIGSERIAL"
    /\ \E n \in DOMAIN op.params.changes : op.params.changes[n].type = "VARCHAR"
    /\ Len(alterColumnKinds(op.sql, "a")) = 7

\* a column type the type catalog does not list
unknownType(col) ==
    \A i \in DOMAIN dataTypes : dataTypes[i].name # toUpperCase(col.type)

hasUnknownType(params) ==
    \/ \E i \in DOMAIN params.additions : unknownType(params.additions[i])
    \/ \E i \in DOMAIN params.changes : unknownType(params.changes[i])

\* every entry of the diff shows in the text
wholeDiffRendered(params, sql) ==
    /\ count(sql, "ADD COLUMN") = Len(params.additions)
    /\ count(sql, "TYPE") = Len(params.changes)
    /\ count(sql, "DROP COLUMN") = Len(params.deletions)
    /\ count(sql, "ADD PRIMARY KEY") + count(sql, "UNIQUE") + count(sql, "CREATE INDEX")
         = Len(params.indexChanges.additions) + Len(params.indexChanges.changes)
    /\ count(sql, "FOREIGN KEY")
         = Len(params.foreignChanges.additions) + Len(params.foreignChanges.changes)
    /\ count(sql, "DROP INDEX") + count(sql, "DROP PRIMARY KEY")
         + count(sql, "DROP CONSTRAINT")
         = Len(params.indexChanges.changes) + Len(params.indexChanges.deletions)
           + Len(params.foreignChanges.changes) + Len(params.foreignChanges.deletions)
    /\ has(sql, "RENAME TO") <=> ~Falsy(params.options.name)

\* C6: alterTable hands the batch rendered from the whole diff to raw in one
\* call, or fails (a column type the catalog lacks) with nothing sent.
C6_AllOrNothing ==
    op.kind = "alterTable" =>
        /\ op.rawCalls <= 1
        /\ hasUnknownType(op.params) => op.rawCalls = 0
        /\ op.rawCalls = 0 =>
              /\ sent = <<>> /\ inflight = <<>>
              /\ op.status = "rejected" /\ op.error = <<"TypeError">>
        /\ op.rawCalls = 1 =>
              /\ wholeDiffRendered(op.params, op.sql)
              /\ call.queries = splitAt(op.sql, SEMI)
              /\ \A j \in DOMAIN sent :
                    sent[j].role = "stmt" /\ has(call.queries, sent[j].text)

C6_Witness ==
    /\ op.kind = "alterTable"
    /\ op.status = "rejected"
    /\ op.rawCalls = 0
    /\ sent = <<>>
    /\ Len(op.params.indexChanges.additions) = 1
    /\ \E i \in DOMAIN op.params.changes : unknownType(op.params.changes[i])

isSaga == op.kind \in sagas

\* statement i of an object-level alter is the step it has to be
sagaStepShape(st, i) ==
    LET tmp == tempName(op.target.name)
        create == \E k \in DOMAIN st : st[k] \in {"CREATE PROCEDURE", "CREATE"}
        drop == st[1] \in {"DROP PROCEDURE", "DROP FUNCTION", "DROP TRIGGER"}
    IN  CASE i = 1 -> create /\ ~drop /\ has(st, tmp)
          [] i = 2 -> drop /\ has(st, tmp)
          [] i = 3 -> drop /\ has(st, op.target.oldName) /\ ~has(st, tmp)
          [] i = 4 -> create /\ ~drop /\ has(st, op.target.name) /\ ~has(st, tmp)
          [] OTHER -> FALSE

\* C4: alterRoutine, alterFunction and alterTrigger issue create-temp,
\* drop-temp, drop-old, create-final in that order, each step only after the
\* steps before it succeeded; a failed step rejects the call with that
\* step's error and nothing is issued after it.
C4_SagaOrder ==
    isSaga =>
        LET st == stmtsSent
            n == Len(st)
        IN  /\ n \in 1..4
            /\ \A i \in 1..n : sagaStepShape(st[i].text, i)
            /\ \A i \in 1..(n - 1) : st[i].outcome = "ok"
            /\ st[n].outcome = "err" <=> op.status = "rejected"
            /\ op.status = "rejected" =>
                  /\ op.error = errorOf(st[n])
                  /\ sent[Len(sent)] = st[n]
                  /\ \A i \in DOMAIN inflight : inflight[i].role # "stmt"
            /\ op.status = "resolved" <=> n = 4 /\ st[n].outcome = "ok"

C4_Witness ==
    /\ op.kind = "alterRoutine"
    /\ op.status = "rejected"
    /\ Len(stmtsSent) = 3
    /\ schema = "s1"

\* C5 as stated: alterView runs the four steps create-temp, drop-temp,
\* drop-old, create-final.
C5_ViewFourSteps ==
    op.kind = "alterView" /\ op.status = "resolved" =>
        /\ Len(stmtsSent) = 4
        /\ \A i \in 1..4 : sagaStepShape(stmtsSent[i].text, i)

\* C5 amended: alterView replaces the view in place under its original name
\* (CREATE OR REPLACE VIEW) and, when the name changed, renames it next
\* (ALTER VIEW ... RENAME TO), both in one raw call; it creates no temporary
\* view and drops nothing.
C5_ViewReplaceThenRename ==
    op.kind = "alterView" =>
        LET st == stmtsSent
            renamed == op.target.name # op.target.oldName
            expected ==
                << <<"CREATE OR REPLACE VIEW", schema, ".", op.target.oldName,
                     "AS", "SELECT 1">> >>
                \o opt(renamed, << <<"ALTER VIEW", schema, ".", op.target.oldName,
                                    "RENAME TO", op.target.name>> >>)
        IN  /\ op.rawCalls = 1
            /\ Len(st) <= Len(expected)
            /\ \A i \in DOMAIN st : body(st[i].text) = expected[i]
            /\ \A i \in 1..(Len(st) - 1) : st[i].outcome = "ok"
            /\ op.status = "resolved" => Len(st) = Len(expected)

C5_Witness ==
    /\ op.kind = "alterView"
    /\ op.status = "resolved"
    /\ op.target.name # op.target.oldName
    /\ Len(stmtsSent) = 2

splitRaw == op.kind = "raw" /\ op.args.split

\* C7: in a raw call with split the statements are sent in textual order,
\* statement k only after statement k-1 and its nest/details lookups all
\* succeeded; a failed statement rejects the call with the driver's error
\* and no later statement is sent.
C7_Sequential ==
    splitRaw =>
        LET frags == SelectSeq(splitAt(op.sql, SEMI), LAMBDA f : f # <<>>)
            st == stmtsSent
        IN  /\ Len(st) <= Len(frags)
            /\ \A i \in DOMAIN st : st[i].text = frags[i]
            /\ \A j \in stmtPlaces : \A l \in 1..(j - 1) :
                  sent[l].role # "setSchema" => sent[l].outcome = "ok"
            /\ \A j \in stmtPlaces :
                  sent[j].outcome = "err" =>
                      /\ op.status = "rejected"
                      /\ op.error = errorOf(sent[j])
                      /\ \A l \in stmtPlaces : l <= j

C7_Witness ==
    /\ splitRaw
    /\ op.args.nest /\ op.args.details
    /\ Len(stmtsSent) = 2
    /\ stmtsSent[2].outcome = "err"
    /\ \E l \in DOMAIN sent : sent[l].role = "keyUsage"

\* C8: raw returns the one result when exactly one statement was executed,
\* else the sequence of the results, one per executed statement, in
\* statement order, each with its own duration.
C8_ReturnShape ==
    op.kind = "raw" /\ op.status = "resolved" =>
        LET st == stmtsSent
            items == op.ret.items
        IN  /\ op.ret.isArray <=> Len(st) # 1
            /\ Len(items) = Len(st)
            /\ \A i \in DOMAIN items :
                  /\ items[i].duration = st[i].doneAt - st[i].at
                  /\ Len(items[i].fields) = Len(pgFields(st[i].text))
                  /\ \A f \in DOMAIN items[i].fields :
                        items[i].fields[f].name = pgFields(st[i].text)[f].name

C8_Witness ==
    /\ op.kind = "raw" /\ op.status = "resolved"
    /\ op.sql = <<Q_ONE, SEMI, Q_JOIN>>
    /\ op.ret.isArray
    /\ Len(op.ret.items) = 2
    /\ op.ret.items[1].duration # op.ret.items[2].duration

\* C9: with details, a (schema, table) pair whose table or schema is unknown
\* is passed over: no column, index or key-usage lookup is issued for it,
\* its fields come back without length and key, and the call is rejected
\* only when the backend failed a query.
C9_UnresolvedSkipped ==
    /\ cb.phase \in lookupRoles =>
          /\ ~Falsy(cb.paramsArr[cb.p].table)
          /\ ~Falsy(cb.paramsArr[cb.p].schema)
    /\ \A j \in DOMAIN sent :
          sent[j].role \in lookupRoles => \A i \in DOMAIN sent[j].text :
              ~Falsy(sent[j].text[i])
    /\ op.kind = "raw" /\ op.args.details /\ op.status = "rejected" =>
          \E j \in DOMAIN sent : sent[j].outcome = "err"
    /\ op.kind = "raw" /\ op.args.details /\ op.status = "resolved" =>
          \A i \in DOMAIN op.ret.items :
              \A f \in DOMAIN op.ret.items[i].fields :
                  LET fld == op.ret.items[i].fields[f]
                  IN  Falsy(fld.table) \/ Falsy(fld.schema) =>
                          /\ "length" \notin DOMAIN fld
                          /\ "key" \notin DOMAIN fld

C9_Witness ==
    /\ op.kind = "raw" /\ op.args.details /\ op.status = "resolved"
    /\ Len(op.ret.items) = 2
    /\ \E f \in DOMAIN op.ret.items[1].fields :
          "length" \in DOMAIN op.ret.items[1].fields[f]
    /\ \E f \in DOMAIN op.ret.items[2].fields :
          /\ Falsy(op.ret.items[2].fields[f].table)
          /\ "length" \notin DOMAIN op.ret.items[2].fields[f]

failedLookups == {j \in DOMAIN sent : sent[j].role \in lookupRoles /\ sent[j].outcome = "err"}

\* C10 as stated: a failed getTableColumns, getTableIndexes or getKeyUsage of
\* the details enrichment is swallowed, the raw call is not rejected.
C10_LookupFailureSwallowed ==
    failedLookups # {} => op.status # "rejected"

\* C10 amended: a failed getTableColumns, getTableIndexes or getKeyUsage of
\* the details enrichment is not swallowed: the raw call rejects with the
\* error of the first lookup that failed, and the statement's result is not
\* delivered.
C10_LookupFailureRejects ==
    failedLookups # {} =>
        LET first == CHOOSE j \in failedLookups : \A l \in failedLookups : j <= l
        IN  /\ op.status = "rejected"
            /\ op.error = errorOf(sent[first])
            /\ call.promise = "rejected"
            /\ Len(call.resultsArr) < Len(stmtsSent)

C10_Witness ==
    /\ op.kind = "raw"
    /\ op.status = "rejected"
    /\ Cardinality(failedLookups) >= 2
    /\ cb.phase = "none"

\* a result was added to resultsArr in this step: the statement it is of and
\* the result
resultAdded == op.kind = "raw" /\ Len(call'.resultsArr) = Len(call.resultsArr) + 1
newResult == call'.resultsArr[Len(call'.resultsArr)]
unparsed == call.k \in DOMAIN call.queries /\ body(call.queries[call.k]) = <<Q_LOCK>>

\* C11 as stated: the fields of a statement the parser rejects all get the
\* current schema and a null table, table alias and original table.
C11_UnparsedAllUnknown ==
    [][resultAdded /\ unparsed =>
          \A f \in DOMAIN newResult.fields :
              LET fld == newResult.fields[f]
              IN  /\ fld.schema = schema
                  /\ fld.table = NULL
                  /\ fld.tableAlias = NULL
                  /\ fld.orgTable = NULL]_vars

\* an unparsed statement's result, one field at a time
unparsedFieldsFallBack ==
    (resultAdded /\ unparsed) =>
        \A f \in DOMAIN newResult.fields :
            LET fld == newResult.fields[f]
                known == call.args.nest /\ fld.tableID \in DOMAIN pgClass
            IN  /\ fld.tableAlias = NULL
                /\ fld.orgTable = NULL
                /\ fld.schema = IF known THEN pgClass[fld.tableID].schema
                                ELSE schema
                /\ fld.table = IF known THEN pgClass[fld.tableID].table
                               ELSE NULL

\* the backend ran an unparsed statement of a call without nest: the result
\* is added in the same step
unparsedStillResolves ==
    (/\ op.kind = "raw" /\ unparsed /\ ~call.args.nest
     /\ \E j \in DOMAIN sent \cap DOMAIN sent' :
           /\ sent[j].role = "stmt"
           /\ sent[j].outcome = "pending"
           /\ sent'[j].outcome = "ok")
    => resultAdded

\* an operation is rejected with the error of a query the backend failed
rejectedByBackendOnly ==
    (op'.status = "rejected" /\ op.status # "rejected" /\ op.kind = "raw") =>
        \E j \in DOMAIN sent' : /\ sent'[j].outcome = "err"
                                /\ op'.error = errorOf(sent'[j])

\* C11 amended: a statement the backend ran and the parser rejects still
\* gets its result, and a call is rejected only with the error of a query
\* the backend failed.  Every field of such a result has a null table alias
\* and original table.  Without nest its schema is the current schema and
\* its table is null; with nest its schema and table are those the catalog
\* gives for the field's table id, and the current schema and null when the
\* catalog has no table of that id.
C11_UnparsedFallback ==
    [][unparsedFieldsFallBack /\ unparsedStillResolves /\ rejectedByBackendOnly]_vars

C11_Witness ==
    /\ op.kind = "raw" /\ op.status = "resolved"
    /\ op.args.nest /\ op.args.details
    /\ body(op.sql) = <<Q_LOCK>>
    /\ ~op.ret.isArray
    /\ op.ret.items[1].fields[1].table = "t1"
    /\ op.ret.items[1].fields[3].table = NULL

\* the key the catalog gives a driver field, and the driver fields of result i
catalogKey(f) ==
    IF f.tableID \in DOMAIN pgClass
    THEN pgClass[f.tableID].table \o "." \o f.name
    ELSE f.name

nestCall == op.kind = "raw" /\ op.args.nest

\* C12 as stated: with nest every key of a row is "<table>.<column>" of a
\* catalogued table and every field's value is in the row under its key.
C12_NestAllQualified ==
    nestCall =>
        \A i \in DOMAIN call.resultsArr :
            LET F == pgFields(stmtsSent[i].text)
                vals == pgRowValues(stmtsSent[i].text)
                rows == call.resultsArr[i].rows
            IN  \A r \in DOMAIN rows :
                    /\ \A key \in DOMAIN rows[r] : \E f \in DOMAIN F :
                          /\ F[f].tableID \in DOMAIN pgClass
                          /\ key = pgClass[F[f].tableID].table \o "." \o F[f].name
                    /\ \A f \in DOMAIN F : rows[r][catalogKey(F[f])] = vals[r][f]

\* C12 amended: with nest every returned row is a mapping with one key per
\* distinct key its fields build: "<table>.<column>" when the catalog
\* (getTableByIDs) knows the field's table id, the bare column name when it
\* does not; the row maps a key to the value of the last field that builds
\* it.
C12_NestKeys ==
    nestCall =>
        \A i \in DOMAIN call.resultsArr :
            LET F == pgFields(stmtsSent[i].text)
                vals == pgRowValues(stmtsSent[i].text)
                rows == call.resultsArr[i].rows
            IN  /\ Len(rows) = Len(vals)
                /\ \A r \in DOMAIN rows :
                      /\ DOMAIN rows[r] = {catalogKey(F[f]) : f \in DOMAIN F}
                      /\ \A f \in DOMAIN F :
                            (\A g \in DOMAIN F :
                                catalogKey(F[g]) = catalogKey(F[f]) => g <= f)
                            => rows[r][catalogKey(F[f])] = vals[r][f]

C12_Witness ==
    /\ nestCall /\ op.status = "resolved"
    /\ Len(op.ret.items) = 2
    /\ Len(op.ret.items[1].rows) = 1 /\ Len(op.ret.items[2].rows) = 1
    /\ DOMAIN op.ret.items[1].rows[1] = {"t1.a", "t2.b"}
    /\ DOMAIN op.ret.items[2].rows[1] = {"t1.a", "?column?"}
    /\ op.ret.items[2].rows[1]["t1.a"] = "v2_a"

\* C13: an operation called on a context that was never connected, or after
\* destroy(), fails with a NotConnected error and sends nothing.
C13_NotConnected ==
    (op.status # "idle" /\ ~Live) =>
        /\ op.status = "rejected"
        /\ op.error = <<"NotConnected">>
        /\ sent = <<>>

\* C14: in pooled mode, once use() chose a non-default schema, every
\* statement of a raw call runs on a physical connection whose search_path
\* is that schema.
C14_SchemaOnEveryHandle ==
    connection = "pool" => ~pool.stale

\* ---------------------------------------------------------------- reading a rendered query
sqlKeywords == {"SELECT", "UPDATE", "INSERT", "DELETE", "FROM", "INTO", "SET",
                "WHERE", "GROUP BY", "ORDER BY", "LIMIT", "VALUES"}

\* the place of a keyword in the order of the contract
kwRank(k) ==
    CASE k = "SELECT" -> 1 [] k = "UPDATE" -> 2 [] k = "INSERT" -> 3
      [] k = "DELETE" -> 4 [] k \in {"FROM", "INTO"} -> 5 [] k = "SET" -> 6
      [] k = "WHERE" -> 7 [] k = "GROUP BY" -> 8 [] k = "ORDER BY" -> 9
      [] k = "LIMIT" -> 10 [] OTHER -> 11

keywordsOf(t) == SelectSeq(t, LAMBDA tok : tok \in sqlKeywords)

\* the tokens between keyword k and the next keyword; the column list that
\* precedes VALUES belongs to the VALUES part
segment(t, k) ==
    LET i == CHOOSE j \in DOMAIN t : t[j] = k
        nexts == {j \in DOMAIN t :
                    /\ j > i
                    /\ t[j] \in sqlKeywords \/ (k # "VALUES" /\ t[j] = "(")}
        e == IF nexts = {} THEN Len(t)
             ELSE (CHOOSE j \in nexts : \A l \in nexts : j <= l) - 1
    IN  SubSeq(t, i + 1, e)

\* the items of a list with a separator between neighbours
listWith(l, sep) ==
    [i \in 1..(2 * Len(l) - 1) |-> IF i % 2 = 1 THEN l[(i + 1) \div 2] ELSE sep]

\* keyword k is there exactly when the list is populated, and then it is
\* followed by the items of the list
clauseOf(t, k, l, sep) ==
    /\ has(t, k) <=> l # <<>>
    /\ has(t, k) => segment(t, k) = listWith(l, sep)

targetOf(q) == (IF q.schema # "" THEN <<q.schema, ".">> ELSE <<>>) \o <<q.from>>

\* the target follows FROM or INTO, or the last verb when neither is there
targetInPlace(t, q) ==
    LET heads == {j \in DOMAIN t : t[j] \in sqlKeywords /\ kwRank(t[j]) <= 5}
        start == IF heads = {} THEN 0
                 ELSE CHOOSE j \in heads : \A l \in heads : l <= j
    IN  q.from # "" =>
            /\ start + Len(targetOf(q)) <= Len(t)
            /\ SubSeq(t, start + 1, start + Len(targetOf(q))) = targetOf(q)

exampleQuery == [noQuery EXCEPT !.select = <<"a", "b">>, !.from = "t",
                                !.where = <<"id = 1">>, !.limit = <<"10">>]

rendered == op.kind = "getSQL"

\* C15: getSQL renders the populated clauses in the order verb, FROM/INTO
\* target, SET, WHERE (joined with AND), GROUP BY, ORDER BY, LIMIT, VALUES,
\* list items joined by commas; select {a, b} from t where id = 1 limit 10
\* renders SELECT a, b FROM t WHERE id = 1 LIMIT 10.
C15_ClauseOrder ==
    rendered =>
        LET t == op.sql
            q == this_query
            kw == keywordsOf(t)
        IN  /\ \A i, j \in DOMAIN kw : i < j => kwRank(kw[i]) < kwRank(kw[j])
            /\ clauseOf(t, "SELECT", q.select, ",")
            /\ has(t, "UPDATE") <=> q.update # <<>>
            /\ has(t, "INSERT") <=> q.insert # <<>>
            /\ has(t, "DELETE") <=> q.delete
            /\ targetInPlace(t, q)
            /\ clauseOf(t, "SET", q.update, ",")
            /\ clauseOf(t, "WHERE", q.where, "AND")
            /\ clauseOf(t, "GROUP BY", q.groupBy, ",")
            /\ clauseOf(t, "ORDER BY", q.orderBy, ",")
            /\ has(t, "LIMIT") => segment(t, "LIMIT") = listWith(q.limit, ",")
            /\ has(t, "VALUES") <=> q.insert # <<>>
            /\ has(t, "VALUES") =>
                  /\ t[Len(t)] = ")"
                  /\ count(segment(t, "VALUES"), "(") = Len(q.insert)
                  /\ \A r \in DOMAIN q.insert : \A c \in DOMAIN q.insert[r] :
                        has(segment(t, "VALUES"), q.insert[r][c][2])
            /\ q = exampleQuery =>
                  t = <<"SELECT", "a", ",", "b", "FROM", "t",
                        "WHERE", "id = 1", "LIMIT", "10">>

C15_Witness ==
    /\ rendered
    /\ this_query = [exampleQuery EXCEPT !.groupBy = <<"a">>, !.orderBy = <<"a ASC">>,
                                         !.where = <<"id = 1", "x > 2">>]
    /\ Len(op.sql) = 16

C17_LimitOnlyWithSelect ==
    rendered =>
        (has(op.sql, "LIMIT") <=>
            (this_query.select # <<>> /\ this_query.limit # <<>>))

C17_Witness ==
    /\ rendered
    /\ this_query.limit = <<"10">>
    /\ this_query.delete
    /\ op.sql = <<"DELETE", "FROM", "t", "WHERE", "id = 1">>

\* C18: getStructure returns one descriptor per database of the backend, in
\* the backend's order and named after it; a database outside the requested
\* set gets a descriptor with the collections of a hydrated one, all empty;
\* the table and trigger queries are issued for requested databases only.
C18_StructureShape ==
    (op.kind = "getStructure" /\ op.status = "resolved") =>
        LET items == op.ret.items
            set == op.params.schemas
        IN  /\ Len(items) = Len(pgDatabases)
            /\ \A i \in DOMAIN items : items[i].name = pgDatabases[i]
            /\ \A i \in DOMAIN items : pgDatabases[i] \notin set =>
                  /\ DOMAIN items[i] = {"name", "tables", "functions", "procedures",
                                        "triggers", "triggerFunctions", "schedulers"}
                  /\ \A k \in DOMAIN items[i] \ {"name"} : items[i][k] = <<>>
            /\ \A j \in DOMAIN sent : Len(sent[j].text) = 2 => sent[j].text[2] \in set

\* C19: getTableColumns with array remapping: an array column is flagged
\* isArray and typed by the static table (_int4 -> INTEGER); an element type
\* outside the table is the udt name without its underscore prefix, in
\* upper case (_custom -> CUSTOM); a non-array column keeps its data type
\* in upper case with isArray false.
columnsCall == op.kind = "getTableColumns" /\ op.status = "resolved"

C19_ArrayRemap ==
    (columnsCall /\ op.params.arrayRemap) =>
        /\ Len(op.ret.items) = Len(op.params.rows)
        /\ \A i \in DOMAIN op.params.rows :
              LET field == op.params.rows[i]
                  col == op.ret.items[i]
              IN  IF field.data_type = ARRAY
                  THEN /\ col.isArray
                       /\ field.udt_name = <<"_", "i", "n", "t", "4">> => col.type = <<"I", "N", "T", "E", "G", "E", "R">>
                       /\ field.udt_name = <<"_", "c", "u", "s", "t", "o", "m">> => col.type = <<"C", "U", "S", "T", "O", "M">>
                       /\ field.udt_name \in arrayTypeKeys =>
                              col.type = arrayTypes(field.udt_name)
                       /\ field.udt_name \notin arrayTypeKeys =>
                              col.type = toUpperCaseChars(Tail(field.udt_name))
                  ELSE /\ ~col.isArray
                       /\ col.type = toUpperCaseChars(field.data_type)
                       /\ field.data_type = <<"i", "n", "t", "e", "g", "e", "r">> => col.type = <<"I", "N", "T", "E", "G", "E", "R">>

C19_Witness ==
    /\ columnsCall /\ op.params.arrayRemap
    /\ Len(op.params.rows) = 2
    /\ op.params.rows[1].udt_name = <<"_", "i", "n", "t", "4">>
    /\ op.params.rows[2].udt_name = <<"_", "c", "u", "s", "t", "o", "m">>
    /\ op.ret.items[1].type = <<"I", "N", "T", "E", "G", "E", "R">>
    /\ op.ret.items[2].type = <<"C", "U", "S", "T", "O", "M">>

\* C20: the retrieval of routine, function, trigger and view information
\* tolerates absence: when the catalog knows no such object, or a pattern is
\* not found in the definition it returned, the call does not fail (it fails
\* only with the error of a statement the backend rejected).
C20_ToleratesAbsence ==
    (op.kind \in informations /\ op.status = "rejected") =>
        \E j \in DOMAIN sent : sent[j].outcome = "err"

\* C21: in the batch alterTable renders every DROP INDEX statement precedes
\* every CREATE INDEX statement, whatever index additions, changes and
\* deletions the diff combines.
C21_DropIndexFirst ==
    alterTableRendered =>
        LET st == statements(op.sql)
        IN  \A i, j \in DOMAIN st :
                (st[i][1] = "DROP INDEX" /\ st[j][1] = "CREATE INDEX") => i < j

\* the changed columns that get a new name, and the names columns had
renamedChanges == SelectSeq(op.params.changes, LAMBDA c : c.name # c.orgName)
orgNames == {op.params.changes[i].orgName : i \in DOMAIN op.params.changes}

\* C22: the batch holds one standalone RENAME COLUMN statement for each
\* changed column whose name differs from its original name, after the main
\* ALTER TABLE statement; the table's RENAME TO is the last statement; every
\* statement names the table, and every column clause the column, by the
\* original name.
C22_RenamesLast ==
    alterTableRendered =>
        LET st == statements(op.sql)
            t == op.params.table
            renames == SelectSeq(st, LAMBDA x : stmtRank(x) = 5)
        IN  /\ Len(renames) = Len(renamedChanges)
            /\ \A i \in DOMAIN renames :
                  renames[i] = <<"ALTER TABLE", schema, ".", t, "RENAME COLUMN",
                                 renamedChanges[i].orgName, "TO",
                                 renamedChanges[i].name>>
            /\ \A i \in DOMAIN st : stmtRank(st[i]) = 5 =>
                  \E j \in 1..(i - 1) : stmtRank(st[j]) = 3
            /\ \A i, j \in DOMAIN st :
                  (stmtRank(st[i]) = 5 /\ stmtRank(st[j]) = 3) => j < i
            /\ ~Falsy(op.params.options.name) =>
                  /\ Len(st) > 0
                  /\ st[Len(st)] = <<"ALTER TABLE", schema, ".", t, "RENAME TO",
                                     op.params.options.name>>
            /\ \A i \in DOMAIN st : stmtRank(st[i]) = 6 => i = Len(st)
            /\ \A i \in DOMAIN st : st[i][1] = "ALTER TABLE" =>
                  SubSeq(st[i], 2, 4) = <<schema, ".", t>>
            /\ \A i \in DOMAIN st : st[i][1] = "CREATE INDEX" => st[i][4] = t
            /\ \A n \in DOMAIN mainClauses(op.sql) :
                  LET cl == mainClauses(op.sql)[n]
                  IN  cl[1] = "ALTER COLUMN" => cl[2] \in orgNames
            /\ \A i \in DOMAIN st : stmtRank(st[i]) = 1 =>
                  \E k \in DOMAIN st[i] :
                      /\ st[i][k] = "OWNED BY" /\ k + 3 = Len(st[i])
                      /\ st[i][k + 1] = t /\ st[i][k + 3] \in orgNames

C22_Witness ==
    /\ alterTableRendered
    /\ Len(renamedChanges) = 1
    /\ ~Falsy(op.params.options.name)
    /\ Len(statements(op.sql)) = 3

\* C23: with split, raw sends only non-empty statements: a fragment that is
\* empty or holds only blanks is never sent and leaves no entry in the
\* results.
C23_BlankNeverSent ==
    splitRaw =>
        /\ \A j \in stmtPlaces : body(sent[j].text) # <<>>
        /\ Len(call.resultsArr) <= Len(statements(op.sql))

\* C24: the default schema of the context changes only in a step in which
\* the caller invokes use(schema); raw with details or nest and the
\* introspection it runs leave it as it was.
schemaChanges == schema' # schema
callerUses == op.kind = "none" /\ op'.kind = "use"

C24_SchemaOnlyByUse == [][schemaChanges => callerUses]_vars

\* C25: when the backend answers every query, every raw call eventually
\* settles (resolves or rejects), whatever nest and details are and whether
\* the catalog lookups succeed or fail.
rawRunning == op.kind = "raw" /\ op.status = "running"
rawSettled == op.kind = "raw" /\ op.status \in {"resolved", "rejected"}

C25_RawSettles == rawRunning ~> rawSettled

\* C26: once a raw call has settled no query is issued on its behalf: no
\* column, index or key-usage lookup and no set-schema statement is sent
\* after the caller has the result or the error.
C26_NothingAfterSettle ==
    op.kind = "raw" => \A j \in DOMAIN sent : ~sent[j].late

====
